---- MODULE Spec2Model ----
(***************************************************************************)
(* A model of the GameInsights collector (gameinsights/collector.py):      *)
(* the error classifier, the per-identifier fetch orchestrator             *)
(* (_fetch_raw_data), the batch entry point (get_games_data) and the       *)
(* record construction of gameinsights/model/game_data.py.                 *)
(*                                                                         *)
(* Error texts are TLA+ strings handled character by character, the way    *)
(* str.lower(), the `in` operator and re.search handle them.               *)
(***************************************************************************)
EXTENDS Integers, Sequences, FiniteSets, TLC

(***************************************************************************)
(* Bounds of the model.                                                    *)
(***************************************************************************)
\* the longest error text is the concatenation of MaxTokens fragments
MaxTokens == 2

(***************************************************************************)
(* Strings.                                                                *)
(***************************************************************************)
CharAt(s, i) == SubSeq(s, i, i)

UpperChars == "ABCDEFGHIJKLMNOPQRSTUVWXYZ"
LowerChars == "abcdefghijklmnopqrstuvwxyz"

\* str.lower() on one character
LowerMap ==
    [c \in {CharAt(UpperChars, k) : k \in 1..26} |->
        CharAt(LowerChars, CHOOSE k \in 1..26 : CharAt(UpperChars, k) = c)]

LowerChar(c) == IF c \in DOMAIN LowerMap THEN LowerMap[c] ELSE c

RECURSIVE Lower(_)
\* str.lower()
Lower(s) ==
    IF Len(s) <= 1 THEN LowerChar(s)
    ELSE Lower(SubSeq(s, 1, Len(s) \div 2)) \o Lower(SubSeq(s, Len(s) \div 2 + 1, Len(s)))

\* Python's `p in s`
Contains(s, p) ==
    \E i \in 1..(Len(s) - Len(p) + 1) : SubSeq(s, i, i + Len(p) - 1) = p

\* does p occur in s starting at index i
StartsAt(s, i, p) == i >= 1 /\ i + Len(p) - 1 <= Len(s) /\ SubSeq(s, i, i + Len(p) - 1) = p

\* the regex class \s (ASCII)
IsSpace(c) == c \in {" ", "\t", "\n", "\r"}

\* the regex class \d (ASCII)
IsDigit(c) == c \in {"0", "1", "2", "3", "4", "5", "6", "7", "8", "9"}

\* the end (exclusive) of the maximal run of whitespace starting at i
RECURSIVE SkipSpace(_, _)
SkipSpace(s, i) ==
    IF i <= Len(s) /\ IsSpace(CharAt(s, i)) THEN SkipSpace(s, i + 1) ELSE i

\* the end (exclusive) of the maximal run of non-whitespace starting at i
RECURSIVE SkipNonSpace(_, _)
SkipNonSpace(s, i) ==
    IF i <= Len(s) /\ ~IsSpace(CharAt(s, i)) THEN SkipNonSpace(s, i + 1) ELSE i

RECURSIVE RStrip(_, _)
\* str.rstrip(chars)
RStrip(s, chars) ==
    IF s # "" /\ CharAt(s, Len(s)) \in chars
    THEN RStrip(SubSeq(s, 1, Len(s) - 1), chars)
    ELSE s

(***************************************************************************)
(* gameinsights/exceptions.py                                              *)
(***************************************************************************)
NoExc == [type |-> "none", message |-> "", identifier |-> "", source |-> "", reason |-> ""]

GameInsightsError(message) ==
    [type |-> "GameInsightsError", message |-> message,
     identifier |-> "", source |-> "", reason |-> ""]

GameNotFoundError(identifier, message) ==
    [type |-> "GameNotFoundError",
     message |-> IF message # "" THEN message
                 ELSE "Game with identifier '" \o identifier \o "' was not found.",
     identifier |-> identifier, source |-> "", reason |-> ""]

SourceUnavailableError(source, reason) ==
    [type |-> "SourceUnavailableError",
     message |-> "Source '" \o source \o "' is unavailable: " \o reason,
     identifier |-> "", source |-> source, reason |-> reason]

InvalidRequestError(message) ==
    [type |-> "InvalidRequestError", message |-> message,
     identifier |-> "", source |-> "", reason |-> ""]

\* the classes an `except GameInsightsError` clause catches
\* pydantic's ValidationError
ValidationError == [type |-> "ValidationError", message |-> "validation error for GameDataModel",
                    identifier |-> "", source |-> "", reason |-> ""]

\* the OverflowError of int(float("inf"))
OverflowError == [type |-> "OverflowError", message |-> "cannot convert float infinity to integer",
                  identifier |-> "", source |-> "", reason |-> ""]

GameInsightsErrorTypes ==
    {"GameInsightsError", "GameNotFoundError", "SourceUnavailableError",
     "InvalidRequestError", "DependencyNotInstalledError"}

(***************************************************************************)
(* Collector._classify_source_error                                        *)
(***************************************************************************)
\* the start indexes at which re.search(word + r"\s+(\S+)", s) can match
HintStarts(s, word) ==
    {i \in 1..Len(s) :
        /\ StartsAt(s, i, word)
        /\ SkipSpace(s, i + Len(word)) > i + Len(word)
        /\ SkipSpace(s, i + Len(word)) <= Len(s)}

\* re.search(word + r"\s+(\S+)", s) finds a match
HintMatches(s, word) == HintStarts(s, word) # {}

\* group(1) of the rightmost match instead of the leftmost
HintGroupRightmost(s, word) ==
    LET i == CHOOSE k \in HintStarts(s, word) : \A m \in HintStarts(s, word) : k >= m
        b == SkipSpace(s, i + Len(word))
    IN  SubSeq(s, b, SkipNonSpace(s, b) - 1)

\* match.group(1) of the leftmost match of word + r"\s+(\S+)"
HintGroup(s, word) ==
    LET i == CHOOSE k \in HintStarts(s, word) : \A m \in HintStarts(s, word) : k <= m
        b == SkipSpace(s, i + Len(word))
    IN  SubSeq(s, b, SkipNonSpace(s, b) - 1)

\* a pattern that knows the "status code: NNN" form only
StatusMatchAt_code_only(s, i) ==
    /\ StartsAt(s, i, "status code: ")
    /\ i + 15 <= Len(s)
    /\ CharAt(s, i + 13) \in {"4", "5"}
    /\ IsDigit(CharAt(s, i + 14))
    /\ IsDigit(CharAt(s, i + 15))

\* r"status(?:\s+code)?:?\s*[45]\d{2}" matches s at index i
StatusMatchAt(s, i) ==
    /\ StartsAt(s, i, "status")
    /\ \E afterCode \in
            {i + 6} \cup
            {k + 4 : k \in {SkipSpace(s, i + 6)} \cap
                           {m \in 1..Len(s) : m > i + 6 /\ StartsAt(s, m, "code")}} :
       \E afterColon \in
            {afterCode} \cup
            {m \in {afterCode + 1} : StartsAt(s, afterCode, ":")} :
          LET d == SkipSpace(s, afterColon)
          IN  /\ d + 2 <= Len(s)
              /\ CharAt(s, d) \in {"4", "5"}
              /\ IsDigit(CharAt(s, d + 1))
              /\ IsDigit(CharAt(s, d + 2))

\* re.search(r"status(?:\s+code)?:?\s*[45]\d{2}", s)
StatusMatches(s) == \E i \in 1..Len(s) : StatusMatchAt(s, i)

\* a keyword list that lost its broad entries
network_keywords_599_only == <<"status code: 599">>

network_keywords ==
    <<"status code: 599", "failed to connect", "connection", "timeout", "ssl",
      "toomanyredirects">>

\* a classifier that tests "not found" before "failed to parse"
_classify_source_error_not_found_first(source_name, error_message) ==
    LET lowered == Lower(error_message)
        hint == IF HintMatches(lowered, "appid")
                THEN RStrip(HintGroup(lowered, "appid"), {".", ","})
                ELSE IF HintMatches(lowered, "steamid")
                THEN RStrip(HintGroup(lowered, "steamid"), {".", ","})
                ELSE "unknown"
    IN  IF Contains(lowered, "not available in the specified region")
        THEN GameNotFoundError(
                 IF HintMatches(lowered, "appid")
                 THEN RStrip(HintGroup(lowered, "appid"), {".", ","})
                 ELSE "unknown",
                 error_message)
        ELSE IF Contains(lowered, "not found")
        THEN GameNotFoundError(hint, error_message)
        ELSE IF Contains(lowered, "failed to parse")
                \/ Contains(lowered, "failed to fetch") \/ Contains(lowered, "failed to obtain")
                \/ (\E k \in 1..Len(network_keywords) : Contains(lowered, network_keywords[k]))
                \/ StatusMatches(lowered)
        THEN SourceUnavailableError(source_name, error_message)
        ELSE GameInsightsError(error_message)

_classify_source_error(source_name, error_message) ==
    LET lowered == Lower(error_message)
    IN  IF Contains(lowered, "not available in the specified region")
        THEN GameNotFoundError(
                 IF HintMatches(lowered, "appid")
                 THEN RStrip(HintGroup(lowered, "appid"), {".", ","})
                 ELSE "unknown",
                 error_message)
        ELSE IF Contains(lowered, "failed to parse")
        THEN SourceUnavailableError(source_name, error_message)
        ELSE IF Contains(lowered, "failed to fetch") \/ Contains(lowered, "failed to obtain")
        THEN SourceUnavailableError(source_name, error_message)
        ELSE IF \E k \in 1..Len(network_keywords) : Contains(lowered, network_keywords[k])
        THEN SourceUnavailableError(source_name, error_message)
        ELSE IF StatusMatches(lowered)
        THEN SourceUnavailableError(source_name, error_message)
        ELSE IF Contains(lowered, "not found")
        THEN GameNotFoundError(
                 IF HintMatches(lowered, "appid")
                 THEN RStrip(HintGroup(lowered, "appid"), {".", ","})
                 ELSE IF HintMatches(lowered, "steamid")
                 THEN RStrip(HintGroup(lowered, "steamid"), {".", ","})
                 ELSE "unknown",
                 error_message)
        ELSE GameInsightsError(error_message)

(***************************************************************************)
(* Collector._raise_for_fetch_failure: the exception it raises             *)
(***************************************************************************)
\* a conversion that forgets the downgrade of supplementary sources
_raise_for_fetch_failure_no_downgrade(source_name, error_message, is_primary) ==
    _classify_source_error(source_name, error_message)

\* a conversion that takes every failure for an unavailable source
_raise_for_fetch_failure_always_unavailable(source_name, error_message, is_primary) ==
    SourceUnavailableError(source_name, error_message)

_raise_for_fetch_failure(source_name, error_message, is_primary) ==
    LET exc == _classify_source_error(source_name, error_message)
    IN  IF ~is_primary /\ exc.type = "GameNotFoundError"
        THEN SourceUnavailableError(source_name, error_message)
        ELSE exc

(***************************************************************************)
(* Python values: VNone, str, int, float (in hundredths), bool, list,       *)
(* datetime (a day number).  The tag comes first, so values of different   *)
(* types are comparable.                                                   *)
(***************************************************************************)
VNone == <<"None">>
VStr(s) == <<"str", s>>
VInt(n) == <<"int", n>>
VFloat(h) == <<"float", h>>
VNaN == <<"nan">>
VInf == <<"inf">>
VBool(b) == <<"bool", b>>
VList(xs) == <<"list", xs>>
VDateTime(d) == <<"datetime", d>>
\* a str in one of the two formats parse_release_date accepts, naming day d
VDateStr(d) == <<"datestr", d>>
\* datetime rendered by model_dump(mode="json")
VIsoDate(d) == <<"isodate", d>>

Tag(v) == v[1]

\* str(v) for an identifier
PyStr(v) == IF Tag(v) = "int" THEN ToString(v[2]) ELSE v[2]

\* a truth test that holds of every value
TruthyAlways(v) == TRUE

\* the truth value of an argument: `not x` is ~Truthy(x)
Truthy(v) ==
    CASE Tag(v) = "None" -> FALSE
      [] Tag(v) = "str" -> v[2] # ""
      [] Tag(v) = "int" -> v[2] # 0
      [] Tag(v) = "list" -> v[2] # <<>>
      [] Tag(v) = "bool" -> v[2]
      [] OTHER -> TRUE

(***************************************************************************)
(* gameinsights/model/game_data.py: GameDataModel                          *)
(***************************************************************************)
IntFields ==
    {"metacritic_score", "copies_sold", "estimated_revenue", "owners", "followers", "ccu",
     "active_player_24h", "peak_active_player_all_time", "review_score", "total_positive",
     "total_negative", "total_reviews", "achievements_count", "comp_main", "comp_plus",
     "comp_100", "comp_all", "comp_main_count", "comp_plus_count", "comp_100_count",
     "comp_all_count", "invested_co", "invested_mp", "invested_co_count",
     "invested_mp_count", "count_comp", "count_speed_run", "count_backlog", "count_review",
     "count_playing", "count_retired", "recommendations", "protondb_total"}

FloatFields ==
    {"price_initial", "price_final", "average_playtime_h",
     "achievements_percentage_average", "discount", "protondb_score"}

OptionalStringFields ==
    {"name", "type", "protondb_tier", "protondb_trending", "protondb_confidence"}

ListFields ==
    {"developers", "publishers", "platforms", "categories", "genres", "tags", "languages",
     "content_rating", "monthly_active_player", "achievements_list"}

\* fields declared without a "before" validator
PlainStrFields == {"price_currency", "review_score_desc"}
PlainBoolFields == {"is_free", "is_coming_soon", "early_access"}
PlainIntFields == {"days_since_release", "average_playtime"}

ModelFields ==
    {"steam_appid", "release_date"} \cup IntFields \cup FloatFields
        \cup OptionalStringFields \cup ListFields \cup PlainStrFields \cup PlainBoolFields
        \cup PlainIntFields

\* Field(exclude=True)
ExcludedFields == {"discount", "average_playtime_h"}

_RECAP_FIELDS ==
    {"steam_appid", "name", "developers", "publishers", "type", "release_date",
     "days_since_release", "price_currency", "price_initial", "price_final", "copies_sold",
     "estimated_revenue", "owners", "followers", "total_positive", "total_negative",
     "total_reviews", "comp_main", "comp_plus", "comp_100", "comp_all", "invested_co",
     "invested_mp", "average_playtime", "active_player_24h", "peak_active_player_all_time",
     "achievements_count", "achievements_percentage_average", "categories", "genres", "tags",
     "is_free", "protondb_tier", "early_access", "metacritic_score"}

\* the day datetime.now() falls on
Today == 20000

\* truncation toward zero of h hundredths, as int() does
TruncHundredths(h) == IF h >= 0 THEN h \div 100 ELSE -((-h) \div 100)

handle_integers(v) ==
    CASE Tag(v) = "None" -> VNone
      [] Tag(v) = "int" -> v
      [] Tag(v) = "float" -> VInt(TruncHundredths(v[2]))
      [] Tag(v) = "bool" -> VInt(IF v[2] THEN 1 ELSE 0)
      [] OTHER -> VNone

\* a validator that lets every float through
handle_float_unchecked(v) ==
    CASE Tag(v) = "None" -> VNone
      [] Tag(v) = "int" -> VFloat(100 * v[2])
      [] Tag(v) \in {"float", "nan", "inf"} -> v
      [] Tag(v) = "bool" -> VFloat(IF v[2] THEN 100 ELSE 0)
      [] OTHER -> VNone

\* float(v), then None unless math.isfinite
handle_float(v) ==
    CASE Tag(v) = "None" -> VNone
      [] Tag(v) = "int" -> VFloat(100 * v[2])
      [] Tag(v) = "float" -> v
      [] Tag(v) = "bool" -> VFloat(IF v[2] THEN 100 ELSE 0)
      [] OTHER -> VNone

ensure_string(v) ==
    CASE Tag(v) = "None" -> VStr("")
      [] Tag(v) = "str" -> v
      [] Tag(v) = "int" -> VStr(ToString(v[2]))
      [] OTHER -> VStr("?")

ensure_optional_string(v) ==
    CASE Tag(v) = "None" -> VNone
      [] Tag(v) = "str" -> v
      [] Tag(v) = "int" -> VStr(ToString(v[2]))
      [] OTHER -> VStr("?")

ensure_list(v) ==
    CASE Tag(v) = "None" -> VList(<<>>)
      [] Tag(v) = "list" -> v
      [] OTHER -> VList(<<v>>)

\* a str in one of the two formats is parsed, a number is a timestamp in
\* seconds (the day it falls on is kept), anything else gives None
parse_release_date(v) ==
    CASE Tag(v) = "None" -> VNone
      [] Tag(v) = "datetime" -> v
      [] Tag(v) = "datestr" -> VDateTime(v[2])
      [] Tag(v) = "int" -> VDateTime(v[2] \div 86400)
      [] Tag(v) = "float" -> VDateTime(v[2] \div 8640000)
      [] Tag(v) = "bool" -> VDateTime(0)
      [] OTHER -> VNone

\* the default a field takes when the raw mapping lacks it
FieldDefault(f) == IF f \in ListFields THEN VList(<<>>) ELSE VNone

\* the "before" validator of field f applied to raw value v
Validate(f, v) ==
    CASE f = "steam_appid" -> ensure_string(v)
      [] f = "release_date" -> parse_release_date(v)
      [] f \in IntFields -> handle_integers(v)
      [] f \in FloatFields -> handle_float(v)
      [] f \in OptionalStringFields -> ensure_optional_string(v)
      [] f \in ListFields -> ensure_list(v)
      [] OTHER -> v

\* the type check of a field that has no "before" validator
TypeOk(f, v) ==
    CASE f \in PlainStrFields -> Tag(v) \in {"None", "str"}
      [] f \in PlainBoolFields -> Tag(v) \in {"None", "bool"}
      [] f \in PlainIntFields -> Tag(v) \in {"None", "int"}
      [] OTHER -> TRUE

\* GameDataModel(**raw) raises a ValidationError
ValidationFails(raw) ==
    \/ "steam_appid" \notin DOMAIN raw
    \/ \E f \in DOMAIN raw \cap ModelFields : ~TypeOk(f, raw[f])

\* int(v) and datetime.fromtimestamp(v) of an infinity raise OverflowError,
\* which handle_integers and parse_release_date do not catch and which
\* leaves GameDataModel(**raw) as it is
OverflowFails(raw) ==
    \E f \in DOMAIN raw \cap (IntFields \cup {"release_date"}) : raw[f] = VInf

\* the exception GameDataModel(**raw) raises, or NoExc
ConstructionError(raw) ==
    CASE OverflowFails(raw) -> OverflowError
      [] ValidationFails(raw) -> ValidationError
      [] OTHER -> NoExc

compute_average_playtime(m) ==
    IF m["average_playtime_h"] # VNone
    THEN [m EXCEPT !["average_playtime"] = VInt((m["average_playtime_h"][2] * 3600) \div 100)]
    ELSE m

compute_days_since_release(m) ==
    IF m["release_date"] # VNone
    THEN [m EXCEPT !["days_since_release"] = VInt(Today - m["release_date"][2])]
    ELSE m

\* GameDataModel(**raw): field validators, defaults, then preprocess_data
GameDataModel(raw) ==
    compute_days_since_release(compute_average_playtime(
        [f \in ModelFields |->
            IF f \in DOMAIN raw THEN Validate(f, raw[f]) ELSE FieldDefault(f)]))

\* a value as model_dump(mode="json") renders it
JsonValue(v) == IF Tag(v) = "datetime" THEN VIsoDate(v[2]) ELSE v

\* GameDataModel.model_dump(mode="json")
model_dump(m) == [f \in ModelFields \ ExcludedFields |-> JsonValue(m[f])]

\* GameDataModel.get_recap()
get_recap(m) == [f \in _RECAP_FIELDS \ ExcludedFields |-> JsonValue(m[f])]

\* a binding that is never the primary one
SourceConfig_never_primary(source, fields, is_primary) ==
    [source |-> source, fields |-> fields, is_primary |-> FALSE]

(***************************************************************************)
(* Collector._init_sources_config: the source bindings                     *)
(***************************************************************************)
SourceConfig(source, fields, is_primary) ==
    [source |-> source, fields |-> fields, is_primary |-> is_primary]

_id_based_sources ==
    << SourceConfig("SteamStore",
           <<"steam_appid", "name", "developers", "publishers", "type", "price_currency",
             "price_initial", "price_final", "categories", "platforms", "genres",
             "metacritic_score", "release_date", "content_rating", "is_free",
             "is_coming_soon", "recommendations">>, TRUE),
       SourceConfig("Gamalytic",
           <<"average_playtime_h", "copies_sold", "estimated_revenue", "owners",
             "languages", "followers", "early_access">>, FALSE),
       SourceConfig("SteamSpy", <<"ccu", "tags", "discount">>, FALSE),
       SourceConfig("SteamCharts",
           <<"active_player_24h", "peak_active_player_all_time",
             "monthly_active_player">>, FALSE),
       SourceConfig("SteamReview",
           <<"review_score", "review_score_desc", "total_positive", "total_negative",
             "total_reviews">>, FALSE),
       SourceConfig("SteamAchievements",
           <<"achievements_count", "achievements_percentage_average",
             "achievements_list">>, FALSE),
       SourceConfig("ProtonDB",
           <<"protondb_tier", "protondb_score", "protondb_trending",
             "protondb_confidence", "protondb_total">>, FALSE) >>

_name_based_sources ==
    << SourceConfig("HowLongToBeat",
           <<"comp_main", "comp_plus", "comp_100", "comp_all", "comp_main_count",
             "comp_plus_count", "comp_100_count", "comp_all_count", "invested_co",
             "invested_mp", "invested_co_count", "invested_mp_count", "count_comp",
             "count_speed_run", "count_backlog", "count_review", "review_score",
             "count_playing", "count_retired">>, FALSE) >>

\* the set of the elements of a sequence
Range(xs) == {xs[k] : k \in 1..Len(xs)}

(***************************************************************************)
(* What a source's fetch can yield.  The sources are external: a call      *)
(* returns a SuccessResult, an ErrorResult, or raises.                     *)
(***************************************************************************)
SuccessResult(data) == [success |-> TRUE, data |-> data, error |-> ""]
\* a mapping with no key
EmptyDict == [f \in {} |-> VNone]

ErrorResult(error) == [success |-> FALSE, data |-> EmptyDict, error |-> error]

\* the number that tells the values of one source from those of another
SourceNumber(source) ==
    CASE source = "SteamStore" -> 1
      [] source = "Gamalytic" -> 2
      [] source = "SteamSpy" -> 3
      [] source = "SteamCharts" -> 4
      [] source = "SteamReview" -> 5
      [] source = "SteamAchievements" -> 6
      [] source = "ProtonDB" -> 7
      [] source = "HowLongToBeat" -> 8

\* the value a source reports for one of its fields
SourceValue(source, f) ==
    CASE f = "name" -> VStr("Mock Game")
      [] f = "price_final" -> VFloat(1234)
      [] f = "release_date" -> VDateStr(Today - 305)
      [] f \in IntFields -> VInt(SourceNumber(source))
      [] f \in FloatFields -> VFloat(100 * SourceNumber(source) + 50)
      [] f \in ListFields -> VList(<<source>>)
      [] f \in PlainBoolFields -> VBool(TRUE)
      [] OTHER -> VStr(source)

\* the numeric appids the store knows
AppNumbers == {12345, 99999}

\* fields a source reports beyond those its binding declares
ExtraFields(source) ==
    CASE source = "ProtonDB" -> {"steam_appid"}
      [] source = "HowLongToBeat" -> {"game_name"}
      [] OTHER -> {}

\* the data of a well-formed SuccessResult of `source` asked for `key`;
\* the store reports the appid as a number and the name it knows
SourceData(source, key, appid, name) ==
    LET declared ==
            IF source = "HowLongToBeat" THEN Range(_name_based_sources[1].fields)
            ELSE Range(_id_based_sources[SourceNumber(source)].fields)
    IN  [f \in declared \cup ExtraFields(source) |->
            CASE f = "steam_appid" /\ source = "SteamStore" -> VInt(appid)
              [] f = "steam_appid" -> VStr(key)
              [] f = "game_name" -> VStr(key)
              [] f = "name" -> name
              [] OTHER -> SourceValue(source, f)]

\* the error texts of the sources' ErrorResults
FailureTexts ==
    {"Failed to fetch data for appid 99999, or appid is not available in the specified region (us) or language (english).",
     "Request timeout",
     "Game 12345 not found on ProtonDB.",
     "Failed to parse data, game name is not found.",
     "Failed with status code: 503",
     "Unexpected error occurred"}

\* an exception a source's fetch raises instead of returning
SourceCrash == [type |-> "RuntimeError", message |-> "source crashed",
                identifier |-> "", source |-> "", reason |-> ""]

\* KeyError(key), whose str() is the repr of the key
KeyError(key) == [type |-> "KeyError", message |-> "'" \o key \o "'",
                  identifier |-> "", source |-> "", reason |-> ""]

\* the ways one call of source.fetch can end: "ok" is the well-formed success
\* with the store's own record, every other one counts as a fault
StoreOddities == {"foreign_appid", "empty_name", "no_name"}

\* the sources that are let return a Success without their fields: one for
\* each of the two merge statements
SparseSources == {"SteamStore", "HowLongToBeat"}

OutcomeKinds(source) ==
    {<<"ok">>, <<"raises">>}
        \cup {<<"error", t>> : t \in FailureTexts}
        \cup (IF source \in SparseSources THEN {<<"empty_data">>} ELSE {})
        \cup (IF source = "SteamStore" THEN {<<k>> : k \in StoreOddities} ELSE {})

Nominal(kind) == kind = <<"ok">>

\* the store answers with a record of its own only for an appid it knows
Possible(source, key, kind) ==
    (source = "SteamStore" /\ kind[1] \in {"ok", "empty_name", "no_name"}) =>
        \E n \in AppNumbers : ToString(n) = key

Raises(kind) == kind = <<"raises">>

\* the SourceResult that source.fetch(key) returns in an outcome that returns
ResultOf(source, key, kind) ==
    CASE kind[1] = "error" -> ErrorResult(kind[2])
      [] kind[1] = "empty_data" -> SuccessResult(EmptyDict)
      [] kind[1] = "foreign_appid" ->
            SuccessResult(SourceData(source, key,
                CHOOSE n \in AppNumbers : ToString(n) # key, VStr("Mock Game")))
      [] kind[1] = "empty_name" ->
            SuccessResult(SourceData(source, key,
                IF \E n \in AppNumbers : ToString(n) = key
                THEN CHOOSE n \in AppNumbers : ToString(n) = key ELSE 0, VStr("")))
      [] kind[1] = "no_name" ->
            SuccessResult(SourceData(source, key,
                IF \E n \in AppNumbers : ToString(n) = key
                THEN CHOOSE n \in AppNumbers : ToString(n) = key ELSE 0, VNone))
      [] OTHER ->
            SuccessResult(SourceData(source, key,
                IF \E n \in AppNumbers : ToString(n) = key
                THEN CHOOSE n \in AppNumbers : ToString(n) = key ELSE 0, VStr("Mock Game")))

(***************************************************************************)
(* The state: one Collector, its get_games_data call in progress, and the  *)
(* inputs of a stand-alone classification.                                 *)
(***************************************************************************)
VARIABLES
    pc,                 \* where the get_games_data call stands
    steam_appids,       \* the argument as passed: a list, or a single str
    recap,              \* argument
    include_failures,   \* argument
    raise_on_error,     \* argument
    appid_list,         \* steam_appids after the wrap of a single value
    idx,                \* position of the for loop of get_games_data (from 1)
    cfg_i,              \* position of the for loop of _fetch_raw_data (from 1)
    raw_data,           \* the accumulator of _fetch_raw_data
    result,             \* the list of payloads
    all_results,        \* the list of FetchResult
    raised,             \* the exception that left get_games_data, or NoExc
    retval,             \* what get_games_data returned
    calls,              \* every source.fetch call made, in order
    faults,             \* how many source calls did not end in a nominal success
    c_pc, c_source, c_msg, c_primary, c_exc,  \* a stand-alone classification
    collectors,         \* the Collector objects: configuration, sources, session
    sessions,           \* the sessions created so far
    close_calls,        \* per Collector, the close() calls and exits so far
    l_set,              \* the last assignment to a configuration attribute
    w_pc, w_source, w_identifier, w_scope, w_kind,  \* a stand-alone wrapped source call
    w_out,              \* what the wrapped call gave and emitted
    w_metrics, w_calls, \* the events and counters emitted so far, and the calls made
    a_pc, a_args, a_appids, a_idx,    \* a get_games_active_player_data call
    a_outcomes,         \* how the steamcharts fetch ended, per appid fetched so far
    all_months, all_data, a_results, a_retval, a_raised,
    u_pc, u_args, steamid_list, u_idx,    \* a get_user_data call
    u_outcomes,         \* how the steamuser fetch ended, per steamid fetched so far
    results, u_retval, u_raised,
    recap_call,         \* a stand-alone GameDataModel(**raw).get_recap()
    request,            \* a BaseSource._make_request call
    hltb                \* a HowLongToBeat.fetch call

bvars == <<pc, steam_appids, recap, include_failures, raise_on_error, appid_list, idx, cfg_i,
           raw_data, result, all_results, raised, retval, calls, faults>>

cvars == <<c_pc, c_source, c_msg, c_primary, c_exc>>

lvars == <<collectors, sessions, close_calls, l_set>>

wvars == <<w_pc, w_source, w_identifier, w_scope, w_kind, w_out, w_metrics, w_calls>>

uvars == <<u_pc, u_args, steamid_list, u_idx, u_outcomes, results, u_retval, u_raised>>

\* the stand-alone calls of the record model and of the sources
nvars == <<recap_call, request, hltb>>

avars == <<a_pc, a_args, a_appids, a_idx, a_outcomes, all_months, all_data, a_results,
           a_retval, a_raised>>

\* the variables outside get_games_data and the stand-alone classification
xvars == <<lvars, wvars, avars, uvars, nvars>>

\* the variables outside the Collector's life, and outside the wrapped call
others_l == <<bvars, cvars, wvars, avars, uvars, nvars>>
others_w == <<bvars, cvars, lvars, avars, uvars, nvars>>
others_a == <<bvars, cvars, lvars, wvars, uvars, nvars>>
others_u == <<bvars, cvars, lvars, wvars, avars, nvars>>
others_n == <<bvars, cvars, lvars, wvars, avars, uvars>>

vars == <<bvars, cvars, xvars>>

\* the longest identifier list
MaxIds == 2
\* the most source calls of one batch that end otherwise than in a nominal success
MaxFaults == 1

AppIds == {VStr("12345"), VInt(99999)}

\* the identifier lists: "12345" repeated, or 99999 and "12345" alternating
IdLists ==
    {[k \in 1..n |-> VStr("12345")] : n \in 0..MaxIds}
        \cup {[k \in 1..n |-> IF k % 2 = 1 THEN VInt(99999) ELSE VStr("12345")] :
                 n \in 0..MaxIds}

\* the values get_games_data is called with: a list, or a single str
Inputs == {VList(xs) : xs \in IdLists} \cup {VStr("12345"), VStr("")}

VDict(d) == <<"dict", d>>

FetchResult(identifier, success, data, error) ==
    [identifier |-> identifier, success |-> success, data |-> data, error |-> error]

InitCollector ==
    /\ pc = "idle"
    /\ steam_appids = VList(<<>>)
    /\ recap = FALSE
    /\ include_failures = FALSE
    /\ raise_on_error = FALSE
    /\ appid_list = <<>>
    /\ idx = 0
    /\ cfg_i = 0
    /\ raw_data = EmptyDict
    /\ result = <<>>
    /\ all_results = <<>>
    /\ raised = NoExc
    /\ retval = VNone
    /\ calls = <<>>
    /\ faults = 0

InitClassifyIdle ==
    /\ c_pc = "idle"
    /\ c_source = ""
    /\ c_msg = ""
    /\ c_primary = FALSE
    /\ c_exc = NoExc

(***************************************************************************)
(* Collector.get_games_data                                                *)
(***************************************************************************)
\* the call: input validation, the wrap of a single value, the empty lists
get_games_data ==
    /\ pc = "idle"
    /\ \E arg \in Inputs, r \in BOOLEAN, i \in BOOLEAN, e \in BOOLEAN :
         /\ steam_appids' = arg
         /\ recap' = r
         /\ include_failures' = i
         /\ raise_on_error' = e
         /\ IF e /\ ~Truthy(arg)
            THEN /\ raised' = InvalidRequestError(
                                  "steam_appids must be a non-empty string or list.")
                 /\ pc' = "raised"
                 /\ UNCHANGED <<appid_list, idx>>
            ELSE /\ appid_list' = IF Tag(arg) \in {"str", "int"} THEN <<arg>> ELSE arg[2]
                 /\ idx' = 1
                 /\ pc' = "loop"
                 /\ UNCHANGED raised
    /\ result' = <<>>
    /\ all_results' = <<>>
    /\ UNCHANGED <<cfg_i, raw_data, retval, calls, faults, cvars, xvars>>

\* the for loop is exhausted: return
ReturnBatch ==
    /\ pc = "loop"
    /\ idx > Len(appid_list)
    /\ retval' = IF include_failures THEN <<"tuple", result, all_results>>
                 ELSE <<"list", result>>
    /\ pc' = "returned"
    /\ UNCHANGED <<steam_appids, recap, include_failures, raise_on_error, appid_list, idx,
                   cfg_i, raw_data, result, all_results, raised, calls, faults, cvars, xvars>>

\* the next identifier: _fetch_raw_data seeds its accumulator
StartFetch ==
    /\ pc = "loop"
    /\ idx <= Len(appid_list)
    /\ raw_data' = [f \in {"steam_appid"} |-> VStr(PyStr(appid_list[idx]))]
    /\ cfg_i' = 1
    /\ pc' = "id_sources"
    /\ UNCHANGED <<steam_appids, recap, include_failures, raise_on_error, appid_list, idx,
                   result, all_results, raised, retval, calls, faults, cvars, xvars>>

\* except clauses that never re-raise
CatchAbsorbing(e) ==
    /\ all_results' = Append(all_results,
           FetchResult(PyStr(appid_list[idx]), FALSE, VNone, VStr(e.message)))
    /\ idx' = idx + 1
    /\ pc' = "loop"
    /\ UNCHANGED raised

\* except clauses that re-raise every exception in propagate mode
CatchReraising(e) ==
    IF raise_on_error
    THEN /\ raised' = e
         /\ pc' = "raised"
         /\ UNCHANGED <<all_results, idx>>
    ELSE /\ all_results' = Append(all_results,
                FetchResult(PyStr(appid_list[idx]), FALSE, VNone, VStr(e.message)))
         /\ idx' = idx + 1
         /\ pc' = "loop"
         /\ UNCHANGED raised

\* except clauses that record no outcome for the identifier
CatchSilent(e) ==
    IF e.type \in GameInsightsErrorTypes /\ raise_on_error
    THEN /\ raised' = e
         /\ pc' = "raised"
         /\ UNCHANGED <<all_results, idx>>
    ELSE /\ idx' = idx + 1
         /\ pc' = "loop"
         /\ UNCHANGED <<all_results, raised>>


\* the except clauses of get_games_data, for an exception e raised while
\* fetching the identifier at idx
Catch(e) ==
    IF e.type \in GameInsightsErrorTypes /\ raise_on_error
    THEN /\ raised' = e
         /\ pc' = "raised"
         /\ UNCHANGED <<all_results, idx>>
    ELSE /\ all_results' = Append(all_results,
                FetchResult(PyStr(appid_list[idx]), FALSE, VNone, VStr(e.message)))
         /\ idx' = idx + 1
         /\ pc' = "loop"
         /\ UNCHANGED raised

\* {key: source_data["data"][key] for key in config.fields} raises KeyError
MissingKeys(config, data) == {k \in 1..Len(config.fields) : config.fields[k] \notin DOMAIN data}

\* a merge of everything the source reported: raw_data.update(data)
Merge_whole_result(raw, config, data) ==
    [f \in DOMAIN raw \cup DOMAIN data |-> IF f \in DOMAIN data THEN data[f] ELSE raw[f]]

\* raw_data.update({key: source_data["data"][key] for key in config.fields})
Merge(raw, config, data) ==
    [f \in DOMAIN raw \cup Range(config.fields) |->
        IF f \in Range(config.fields) THEN data[f] ELSE raw[f]]

\* one record of the call log: the list position served, the source, whether
\* it is id-keyed or name-keyed, the lookup key, and how the call ended
Call(pos, source, scope, identifier, outcome) ==
    [pos |-> pos, source |-> source, scope |-> scope, identifier |-> identifier,
     outcome |-> outcome]

\* a lookup key that is the appid instead of the name
game_name_is_appid(raw) == raw["steam_appid"]

\* raw_data.get("name", None)
game_name(raw) == IF "name" \in DOMAIN raw THEN raw["name"] ELSE VNone

(***************************************************************************)
(* Collector._fetch_with_observability                                     *)
(***************************************************************************)
\* no SourceResult: the call raised
NoResult == [success |-> FALSE, data |-> EmptyDict, error |-> "<raised>"]

\* source.fetch(identifier) in the outcome `kind`: the exception it raises,
\* or the SourceResult it returns
source_fetch(source, identifier, kind) ==
    IF Raises(kind)
    THEN [exc |-> SourceCrash, result |-> NoResult]
    ELSE [exc |-> NoExc, result |-> ResultOf(source, identifier, kind)]

\* a wrapper that turns an exception of the source into a Failure
_fetch_with_observability_swallowing(source, identifier, scope, kind) ==
    LET fetched == source_fetch(source, identifier, kind)
    IN  IF fetched.exc # NoExc
        THEN [exc |-> NoExc, result |-> ErrorResult(fetched.exc.message),
              events |-> <<"source_fetch_start", "source_fetch_exception">>,
              timers |-> <<"source_fetch_duration_seconds">>,
              counters |-> <<"source_fetch_exception_total">>,
              steps |-> <<"source_fetch_start", "source.fetch",
                          "source_fetch_exception_total", "source_fetch_exception">>]
        ELSE [exc |-> NoExc, result |-> fetched.result,
              events |-> <<"source_fetch_start", "source_fetch_complete">>,
              timers |-> <<"source_fetch_duration_seconds">>,
              counters |-> <<"source_fetch_total",
                             IF fetched.result.success THEN "source_fetch_success_total"
                             ELSE "source_fetch_error_total">>,
              steps |-> <<"source_fetch_start", "source.fetch", "source_fetch_total",
                          IF fetched.result.success THEN "source_fetch_success_total"
                          ELSE "source_fetch_error_total",
                          "source_fetch_complete">>]

\* a wrapper that counts a call that raised among the completed ones as well
_fetch_with_observability_totalling_exceptions(source, identifier, scope, kind) ==
    LET fetched == source_fetch(source, identifier, kind)
    IN  IF fetched.exc # NoExc
        THEN [exc |-> fetched.exc, result |-> NoResult,
              events |-> <<"source_fetch_start", "source_fetch_exception">>,
              timers |-> <<"source_fetch_duration_seconds">>,
              counters |-> <<"source_fetch_total", "source_fetch_exception_total">>,
              steps |-> <<"source_fetch_start", "source.fetch", "source_fetch_total",
                          "source_fetch_exception_total", "source_fetch_exception">>]
        ELSE [exc |-> NoExc, result |-> fetched.result,
              events |-> <<"source_fetch_start", "source_fetch_complete">>,
              timers |-> <<"source_fetch_duration_seconds">>,
              counters |-> <<"source_fetch_total",
                             IF fetched.result.success THEN "source_fetch_success_total"
                             ELSE "source_fetch_error_total">>,
              steps |-> <<"source_fetch_start", "source.fetch", "source_fetch_total",
                          IF fetched.result.success THEN "source_fetch_success_total"
                          ELSE "source_fetch_error_total",
                          "source_fetch_complete">>]

\* the wrapped call: what it raises or returns, the events, timers and
\* counters it emits on the way, and the order in which it emits them and
\* calls the source
_fetch_with_observability(source, identifier, scope, kind) ==
    LET fetched == source_fetch(source, identifier, kind)
    IN  IF fetched.exc # NoExc
        THEN [exc |-> fetched.exc, result |-> NoResult,
              events |-> <<"source_fetch_start", "source_fetch_exception">>,
              timers |-> <<"source_fetch_duration_seconds">>,
              counters |-> <<"source_fetch_exception_total">>,
              steps |-> <<"source_fetch_start", "source.fetch",
                          "source_fetch_exception_total", "source_fetch_exception">>]
        ELSE [exc |-> NoExc, result |-> fetched.result,
              events |-> <<"source_fetch_start", "source_fetch_complete">>,
              timers |-> <<"source_fetch_duration_seconds">>,
              counters |-> <<"source_fetch_total",
                             IF fetched.result.success THEN "source_fetch_success_total"
                             ELSE "source_fetch_error_total">>,
              steps |-> <<"source_fetch_start", "source.fetch", "source_fetch_total",
                          IF fetched.result.success THEN "source_fetch_success_total"
                          ELSE "source_fetch_error_total",
                          "source_fetch_complete">>]

\* one turn of the loop over the id-keyed bindings: the wrapped source call,
\* then the merge, the raise for a failed primary source, or nothing; after
\* the last turn `if game_name:` decides whether the name-keyed bindings are
\* queried
FetchIdSource ==
    /\ pc = "id_sources"
    /\ LET config == _id_based_sources[cfg_i]
           identifier == PyStr(appid_list[idx])
       IN  \E kind \in OutcomeKinds(config.source) :
             /\ Possible(config.source, identifier, kind)
             /\ Nominal(kind) \/ faults < MaxFaults
             /\ faults' = IF Nominal(kind) THEN faults ELSE faults + 1
             /\ calls' = Append(calls, Call(idx, config.source, "id", identifier, kind[1]))
             /\ LET observed == _fetch_with_observability(config.source, identifier, "id", kind)
                    source_data == observed.result IN
                IF observed.exc # NoExc
                THEN Catch(observed.exc) /\ UNCHANGED <<raw_data, cfg_i>>
                ELSE
                IF source_data.success /\ MissingKeys(config, source_data.data) # {}
                THEN /\ Catch(KeyError(config.fields[
                            CHOOSE k \in MissingKeys(config, source_data.data) :
                                \A m \in MissingKeys(config, source_data.data) : k <= m]))
                     /\ UNCHANGED <<raw_data, cfg_i>>
                ELSE IF ~source_data.success /\ raise_on_error /\ config.is_primary
                THEN /\ Catch(_raise_for_fetch_failure(config.source, source_data.error, TRUE))
                     /\ UNCHANGED <<raw_data, cfg_i>>
                ELSE /\ raw_data' = IF source_data.success
                                    THEN Merge(raw_data, config, source_data.data)
                                    ELSE raw_data
                     /\ IF cfg_i < Len(_id_based_sources)
                        THEN cfg_i' = cfg_i + 1 /\ pc' = "id_sources"
                        ELSE /\ cfg_i' = 1
                             /\ pc' = IF Truthy(game_name(raw_data'))
                                      THEN "name_sources" ELSE "build"
                     /\ UNCHANGED <<all_results, idx, raised>>
    /\ UNCHANGED <<steam_appids, recap, include_failures, raise_on_error, appid_list,
                   result, retval, cvars, xvars>>

\* one turn of the loop over the name-keyed bindings
FetchNameSource ==
    /\ pc = "name_sources"
    /\ LET config == _name_based_sources[cfg_i]
           identifier == PyStr(game_name(raw_data))
       IN  \E kind \in OutcomeKinds(config.source) :
             /\ Possible(config.source, identifier, kind)
             /\ Nominal(kind) \/ faults < MaxFaults
             /\ faults' = IF Nominal(kind) THEN faults ELSE faults + 1
             /\ calls' = Append(calls, Call(idx, config.source, "name", identifier, kind[1]))
             /\ LET observed == _fetch_with_observability(config.source, identifier, "name", kind)
                    source_data == observed.result IN
                IF observed.exc # NoExc
                THEN Catch(observed.exc) /\ UNCHANGED <<raw_data, cfg_i>>
                ELSE
                IF source_data.success /\ MissingKeys(config, source_data.data) # {}
                THEN /\ Catch(KeyError(config.fields[
                            CHOOSE k \in MissingKeys(config, source_data.data) :
                                \A m \in MissingKeys(config, source_data.data) : k <= m]))
                     /\ UNCHANGED <<raw_data, cfg_i>>
                ELSE /\ raw_data' = IF source_data.success
                                    THEN Merge(raw_data, config, source_data.data)
                                    ELSE raw_data
                     /\ IF cfg_i < Len(_name_based_sources)
                        THEN cfg_i' = cfg_i + 1 /\ pc' = "name_sources"
                        ELSE cfg_i' = 1 /\ pc' = "build"
                     /\ UNCHANGED <<all_results, idx, raised>>
    /\ UNCHANGED <<steam_appids, recap, include_failures, raise_on_error, appid_list,
                   result, retval, cvars, xvars>>

\* _fetch_raw_data returns GameDataModel(**raw_data); get_games_data appends
\* the payload and a successful FetchResult
BuildRecord ==
    /\ pc = "build"
    /\ IF ConstructionError(raw_data) # NoExc
       THEN Catch(ConstructionError(raw_data)) /\ UNCHANGED result
       ELSE LET game_data == GameDataModel(raw_data)
                payload == IF recap THEN get_recap(game_data) ELSE model_dump(game_data)
            IN  /\ result' = Append(result, payload)
                /\ all_results' = Append(all_results,
                       FetchResult(PyStr(appid_list[idx]), TRUE, VDict(payload), VNone))
                /\ idx' = idx + 1
                /\ pc' = "loop"
                /\ UNCHANGED raised
    /\ UNCHANGED <<steam_appids, recap, include_failures, raise_on_error, appid_list,
                   cfg_i, raw_data, retval, calls, faults, cvars, xvars>>

Next ==
    \/ get_games_data
    \/ StartFetch
    \/ FetchIdSource
    \/ FetchNameSource
    \/ BuildRecord
    \/ ReturnBatch

(***************************************************************************)
(* The classifier on its own: error texts built from the fragments the     *)
(* sources' messages are made of.                                          *)
(***************************************************************************)
Tokens ==
    {"Failed to fetch data for appid 12345, or appid is not available in the specified region (us) or language (english).",
     "Game with APPID 12345 NOT FOUND.",
     "steamid 76561198000000000 not found.",
     "Failed to parse data, game name is not found.",
     "Failed to obtain search token.",
     "Request timeout",
     "Failed with status code: 503",
     "Unexpected error occurred",
     "appid ", "not available in the specified region", "failed to fetch",
     "Status code: 599", "failed to connect", "Connection", "SSL", "TooManyRedirects",
     "status 404", "not found"}

RECURSIVE Concat(_)
Concat(ts) == IF ts = <<>> THEN "" ELSE Head(ts) \o Concat(Tail(ts))

Messages == {Concat(ts) : ts \in UNION {[1..n -> Tokens] : n \in 0..MaxTokens}}

SourceNames == {"SteamStore", "ProtonDB"}

Classify ==
    /\ c_pc = "input"
    /\ c_exc' = _classify_source_error(c_source, c_msg)
    /\ c_pc' = "classified"
    /\ UNCHANGED <<c_source, c_msg, c_primary, bvars, xvars>>

RaiseForFetchFailure ==
    /\ c_pc = "input"
    /\ \E is_primary \in BOOLEAN :
         /\ c_primary' = is_primary
         /\ c_exc' = _raise_for_fetch_failure(c_source, c_msg, is_primary)
    /\ c_pc' = "raised"
    /\ UNCHANGED <<c_source, c_msg, bvars, xvars>>

NextClassify == Classify \/ RaiseForFetchFailure

(***************************************************************************)
(* The life of Collector objects: construction, the configuration          *)
(* properties, close() and the context manager.  A session is a number;    *)
(* sessions[s] counts the calls of that session's close().                 *)
(***************************************************************************)
\* the Collector objects of a program
CollectorIds == {"c1", "c2"}

\* the most sessions a program creates
MaxSessions == 3

RegionValues == {"us", "uk"}
LanguageValues == {"english", "french"}
ApiKeyValues == {VNone, VStr("TEST_API_KEY_12345")}

\* the attributes of the sources a Collector owns
SourceAttributes ==
    {"steamstore", "gamalytic", "steamspy", "steamcharts", "steamreview",
     "steamachievements", "steamuser", "howlongtobeat", "protondb"}

\* requests.Session(): a session nobody has closed
NewSession == [closes |-> 0]

\* a Collector that has not been constructed
NoCollector ==
    [constructed |-> FALSE, _region |-> "", _language |-> "", _steam_api_key |-> VNone,
     _gamalytic_api_key |-> VNone, _closed |-> FALSE, _session |-> 0,
     source_session |-> [a \in SourceAttributes |-> 0],
     steamstore |-> [region |-> "", language |-> "", api_key |-> VNone],
     gamalytic |-> [api_key |-> VNone],
     steamachievements |-> [api_key |-> VNone],
     steamuser |-> [api_key |-> VNone],
     id_based_sources |-> <<>>, name_based_sources |-> <<>>]

\* sources that all use one session of the class, the first ever created
_init_sources_singleton(self) ==
    [self EXCEPT
        !.source_session = [a \in SourceAttributes |-> 1],
        !.steamstore = [region |-> self._region, language |-> self._language,
                        api_key |-> self._steam_api_key],
        !.gamalytic = [api_key |-> self._gamalytic_api_key],
        !.steamachievements = [api_key |-> self._steam_api_key],
        !.steamuser = [api_key |-> self._steam_api_key]]


\* every source is built with session=self._session
_init_sources(self) ==
    [self EXCEPT
        !.source_session = [a \in SourceAttributes |-> self._session],
        !.steamstore = [region |-> self._region, language |-> self._language,
                        api_key |-> self._steam_api_key],
        !.gamalytic = [api_key |-> self._gamalytic_api_key],
        !.steamachievements = [api_key |-> self._steam_api_key],
        !.steamuser = [api_key |-> self._steam_api_key]]

_init_sources_config(self) ==
    [self EXCEPT !.id_based_sources = _id_based_sources,
                 !.name_based_sources = _name_based_sources]

\* no attribute has been assigned yet
NoAssignment == [target |-> "", c |-> "", value |-> VNone, before |-> NoCollector]

\* the record of the assignment `target = value` on Collector c
Assignment(target, c, value) ==
    [target |-> target, c |-> c, value |-> value, before |-> collectors[c]]

InitLifecycleIdle ==
    /\ collectors = [c \in CollectorIds |-> NoCollector]
    /\ sessions = <<>>
    /\ close_calls = [c \in CollectorIds |-> 0]
    /\ l_set = NoAssignment

\* the Collector that __init__ leaves when the initialisation succeeds
NewCollector(region, language, steam_api_key, gamalytic_api_key, s) ==
    LET self == [NoCollector EXCEPT
                    !._region = region, !._language = language,
                    !._steam_api_key = steam_api_key,
                    !._gamalytic_api_key = gamalytic_api_key,
                    !._closed = FALSE, !._session = s]
    IN  [_init_sources_config(_init_sources(self)) EXCEPT !.constructed = TRUE]

\* Collector(region, language, steam_api_key, gamalytic_api_key): the session
\* is created first; when the initialisation of the sources fails the session
\* is closed and no Collector comes to exist
Construct(c) ==
    /\ ~collectors[c].constructed
    /\ Len(sessions) < MaxSessions
    /\ \E region \in RegionValues, language \in LanguageValues,
          steam_api_key \in ApiKeyValues, gamalytic_api_key \in ApiKeyValues,
          init_fails \in BOOLEAN :
         LET s == Len(sessions) + 1
         IN  IF init_fails
             THEN /\ sessions' = Append(sessions, [closes |-> 1])
                  /\ UNCHANGED collectors
             ELSE /\ sessions' = Append(sessions, NewSession)
                  /\ collectors' = [collectors EXCEPT ![c] =
                         NewCollector(region, language, steam_api_key,
                                      gamalytic_api_key, s)]
    /\ UNCHANGED <<close_calls, l_set, others_l>>

\* the most close() calls and context-manager exits on one Collector
MaxCloses == 2

\* the Collector after close()
close_self(self) == [self EXCEPT !._closed = TRUE]

\* a close() that does not look at _closed
close_session_unguarded(self) == self._session


\* the session whose close() the call self.close() invokes; 0 for none
close_session(self) == IF ~self._closed THEN self._session ELSE 0

\* the sessions after self.close()
close_sessions(self) ==
    IF close_session(self) # 0
    THEN [sessions EXCEPT ![close_session(self)].closes = @ + 1]
    ELSE sessions

\* Collector.close
close(c) ==
    /\ collectors[c].constructed
    /\ close_calls[c] < MaxCloses
    /\ close_calls' = [close_calls EXCEPT ![c] = @ + 1]
    /\ sessions' = close_sessions(collectors[c])
    /\ collectors' = [collectors EXCEPT ![c] = close_self(@)]
    /\ UNCHANGED <<l_set, others_l>>

\* Collector.__exit__: close(), whose exception, if any, is logged and not
\* raised again; Session.close() raises none
__exit__(c) ==
    /\ collectors[c].constructed
    /\ close_calls[c] < MaxCloses
    /\ close_calls' = [close_calls EXCEPT ![c] = @ + 1]
    /\ sessions' = close_sessions(collectors[c])
    /\ collectors' = [collectors EXCEPT ![c] = close_self(@)]
    /\ UNCHANGED <<l_set, others_l>>

\* a setter that assigns without comparing
region_setter_unconditional(self, value) ==
    [self EXCEPT !._region = value, !.steamstore.region = value]


\* the property setters: a value equal to the current one changes nothing
region_setter(self, value) ==
    IF self._region # value
    THEN [self EXCEPT !._region = value, !.steamstore.region = value]
    ELSE self

language_setter(self, value) ==
    IF self._language # value
    THEN [self EXCEPT !._language = value, !.steamstore.language = value]
    ELSE self

steam_api_key_setter(self, value) ==
    IF self._steam_api_key # value
    THEN [self EXCEPT !._steam_api_key = value, !.steamstore.api_key = value,
                      !.steamachievements.api_key = value, !.steamuser.api_key = value]
    ELSE self

gamalytic_api_key_setter(self, value) ==
    IF self._gamalytic_api_key # value
    THEN [self EXCEPT !._gamalytic_api_key = value, !.gamalytic.api_key = value]
    ELSE self

\* collector.region = value
SetRegion(c) ==
    /\ collectors[c].constructed
    /\ \E value \in RegionValues :
         /\ collectors' = [collectors EXCEPT ![c] = region_setter(@, value)]
         /\ l_set' = Assignment("region", c, VStr(value))
    /\ UNCHANGED <<sessions, close_calls, others_l>>

\* collector.language = value
SetLanguage(c) ==
    /\ collectors[c].constructed
    /\ \E value \in LanguageValues :
         /\ collectors' = [collectors EXCEPT ![c] = language_setter(@, value)]
         /\ l_set' = Assignment("language", c, VStr(value))
    /\ UNCHANGED <<sessions, close_calls, others_l>>

\* collector.steam_api_key = value
SetSteamApiKey(c) ==
    /\ collectors[c].constructed
    /\ \E value \in ApiKeyValues :
         /\ collectors' = [collectors EXCEPT ![c] = steam_api_key_setter(@, value)]
         /\ l_set' = Assignment("steam_api_key", c, value)
    /\ UNCHANGED <<sessions, close_calls, others_l>>

\* collector.gamalytic_api_key = value
SetGamalyticApiKey(c) ==
    /\ collectors[c].constructed
    /\ \E value \in ApiKeyValues :
         /\ collectors' = [collectors EXCEPT ![c] = gamalytic_api_key_setter(@, value)]
         /\ l_set' = Assignment("gamalytic_api_key", c, value)
    /\ UNCHANGED <<sessions, close_calls, others_l>>

\* collector.steamstore.region = value: a value set on the source itself
SetStoreRegion(c) ==
    /\ collectors[c].constructed
    /\ \E value \in RegionValues :
         /\ collectors' = [collectors EXCEPT ![c].steamstore.region = value]
         /\ l_set' = Assignment("steamstore.region", c, VStr(value))
    /\ UNCHANGED <<sessions, close_calls, others_l>>

NextLifecycle ==
    \E c \in CollectorIds :
        \/ Construct(c)
        \/ close(c)
        \/ __exit__(c)

NextConfig ==
    \E c \in CollectorIds :
        \/ SetRegion(c)
        \/ SetLanguage(c)
        \/ SetSteamApiKey(c)
        \/ SetGamalyticApiKey(c)
        \/ SetStoreRegion(c)

(***************************************************************************)
(* A source call through the wrapper, on its own: any bound source, asked  *)
(* for a key of its kind, ending in any of the ways a fetch can end.       *)
(***************************************************************************)
\* the events and counters the program can emit around a source call
MetricNames ==
    {"source_fetch_start", "source_fetch_complete", "source_fetch_exception",
     "source_fetch_total", "source_fetch_success_total", "source_fetch_error_total",
     "source_fetch_exception_total"}

\* the most wrapped calls in a row
MaxCalls == 3

\* nothing returned, raised or emitted yet
NoOutput == [exc |-> NoExc, result |-> NoResult, events |-> <<>>, timers |-> <<>>,
             counters |-> <<>>, steps |-> <<>>]

InitWrapperIdle ==
    /\ w_pc = "idle"
    /\ w_source = ""
    /\ w_identifier = ""
    /\ w_scope = ""
    /\ w_kind = <<"ok">>
    /\ w_out = NoOutput
    /\ w_metrics = [n \in MetricNames |-> 0]
    /\ w_calls = 0

\* the calls _fetch_raw_data makes: an id-keyed binding with an appid, a
\* name-keyed binding with a name
WrappedCalls ==
    {<<_id_based_sources[n].source, "id", identifier>> :
        n \in 1..Len(_id_based_sources), identifier \in {"12345", "99999"}}
        \cup {<<_name_based_sources[n].source, "name", "Mock Game">> :
                 n \in 1..Len(_name_based_sources)}

ObservedFetch ==
    /\ w_pc = "input"
    /\ w_out' = LET observed == _fetch_with_observability(w_source, w_identifier,
                                                          w_scope, w_kind)
                IN  [exc |-> observed.exc, result |-> observed.result,
                     events |-> observed.events, timers |-> observed.timers,
                     counters |-> observed.counters, steps |-> observed.steps]
    /\ w_metrics' = [n \in MetricNames |->
           w_metrics[n] + Cardinality({k \in 1..Len(w_out'.steps) : w_out'.steps[k] = n})]
    /\ w_calls' = w_calls + 1
    /\ w_pc' = "done"
    /\ UNCHANGED <<w_source, w_identifier, w_scope, w_kind, others_w>>

\* the loops of _fetch_raw_data go on to their next wrapped call
NextWrappedCall ==
    /\ w_pc = "done"
    /\ w_calls < MaxCalls
    /\ \E call \in WrappedCalls :
         /\ w_source' = call[1]
         /\ w_scope' = call[2]
         /\ w_identifier' = call[3]
         /\ w_kind' \in {kind \in OutcomeKinds(call[1]) : Possible(call[1], call[3], kind)}
    /\ w_out' = NoOutput
    /\ w_pc' = "input"
    /\ UNCHANGED <<w_metrics, w_calls, others_w>>

NextWrapper == ObservedFetch \/ NextWrappedCall

(***************************************************************************)
(* Collector.get_games_active_player_data                                  *)
(***************************************************************************)
\* the characters of the month labels, in code point order
CodePoints == " 0123456789ABCDEFGHIJKLMNOPQRSTUVWXYZabcdefghijklmnopqrstuvwxyz"

Ord(c) == CHOOSE i \in 1..Len(CodePoints) : CharAt(CodePoints, i) = c

\* a < b for two str
RECURSIVE StrLess(_, _)
StrLess(a, b) ==
    IF a = "" THEN b # ""
    ELSE IF b = "" THEN FALSE
    ELSE IF CharAt(a, 1) = CharAt(b, 1)
         THEN StrLess(SubSeq(a, 2, Len(a)), SubSeq(b, 2, Len(b)))
         ELSE Ord(CharAt(a, 1)) < Ord(CharAt(b, 1))

\* sorted(a set of str)
RECURSIVE sorted(_)
sorted(S) ==
    IF S = {} THEN <<>>
    ELSE LET least == CHOOSE x \in S : \A y \in S \ {x} : StrLess(x, y)
         IN  <<least>> \o sorted(S \ {least})

DependencyNotInstalledError(package, install_extra) ==
    [type |-> "DependencyNotInstalledError",
     message |-> "'" \o package \o "' is required for this operation. "
                   \o "Install it with: pip install gameinsights[" \o install_extra \o "]",
     identifier |-> "", source |-> "", reason |-> ""]

\* one row of monthly_active_player
MonthRow(month, average_players) == [month |-> month, average_players |-> average_players]

\* the data SteamCharts reports for the selected labels: a full record, one
\* with nulls and a zero, and one without any of the labels
ChartData ==
    { [name |-> VStr("Mock Game: The Adventure"),
       peak_active_player_all_time |-> VInt(12345),
       monthly_active_player |->
           <<MonthRow("Last 30 Days", VFloat(12345)), MonthRow("June 1234", VFloat(12345))>>],
      [name |-> VNone,
       peak_active_player_all_time |-> VNone,
       monthly_active_player |->
           <<MonthRow("May 1234", VNone), MonthRow("June 1234", VInt(0))>>],
      [peak_active_player_all_time |-> VInt(0)] }

TypeError == [type |-> "TypeError", message |-> "'NoneType' object is not iterable",
              identifier |-> "", source |-> "", reason |-> ""]

\* the ways steamcharts.fetch can end: a Success with one of the data, a
\* Success whose monthly_active_player is null, a Failure with or without an
\* error text, an exception
ChartOutcomes ==
    {<<"ok", d>> : d \in ChartData}
        \cup {<<"null_months">>, <<"error", "Failed to parse data, game name is not found.">>,
              <<"error_without_text">>, <<"raises">>}

\* data.get(key): the value, or None for a missing key
DictGet(d, key) == IF key \in DOMAIN d THEN d[key] ELSE VNone

\* {month["month"]: month["average_players"] for month in data.get("monthly_active_player", [])}
monthly_data(data) ==
    LET rows == IF "monthly_active_player" \in DOMAIN data
                THEN data["monthly_active_player"] ELSE <<>>
    IN  [month \in {rows[k].month : k \in 1..Len(rows)} |->
            LET last == CHOOSE k \in 1..Len(rows) :
                            rows[k].month = month
                            /\ \A j \in 1..Len(rows) : rows[j].month = month => j <= k
            IN  rows[last].average_players]

\* a.update(b) for two dicts
DictUpdate(a, b) ==
    [key \in DOMAIN a \cup DOMAIN b |-> IF key \in DOMAIN b THEN b[key] ELSE a[key]]

\* a numeric cell takes the fill value for any falsy value
fill_value_if_falsy(value, fill_na_as) == IF Truthy(value) THEN value ELSE VInt(fill_na_as)

\* value if value is not None else fill_na_as
fill_value(value, fill_na_as) == IF value # VNone THEN value ELSE VInt(fill_na_as)

fixed_columns == <<"steam_appid", "name", "peak_active_player_all_time">>

\* one normalized record: the cells in column order
normalized_record(record, sorted_months, fill_na_as) ==
    LET columns == fixed_columns \o sorted_months
        numeric_columns == {"peak_active_player_all_time"} \cup Range(sorted_months)
    IN  [k \in 1..Len(columns) |->
            <<columns[k],
              IF columns[k] \in numeric_columns
              THEN fill_value(DictGet(record, columns[k]), fill_na_as)
              ELSE DictGet(record, columns[k])>>]

FillValues == {-1, -999}

InitActiveIdle ==
    /\ a_pc = "idle"
    /\ a_args = [steam_appids |-> VList(<<>>), fill_na_as |-> -1, include_failures |-> FALSE,
                 return_as |-> "list", pandas |-> TRUE]
    /\ a_appids = <<>>
    /\ a_idx = 0
    /\ a_outcomes = <<>>
    /\ all_months = {}
    /\ all_data = <<>>
    /\ a_results = <<>>
    /\ a_retval = VNone
    /\ a_raised = NoExc

\* the call: the empty input returns at once, a single value is wrapped
get_games_active_player_data ==
    /\ a_pc = "idle"
    /\ \E arg \in Inputs \cup {VInt(99999)}, fill \in FillValues, i \in BOOLEAN,
          r \in {"list", "dataframe"}, pandas \in BOOLEAN :
         /\ (r = "list" => pandas)
         /\ a_args' = [steam_appids |-> arg, fill_na_as |-> fill, include_failures |-> i,
                       return_as |-> r, pandas |-> pandas]
         /\ IF ~Truthy(arg)
            THEN /\ IF r = "dataframe" /\ ~pandas
                    THEN /\ a_raised' = DependencyNotInstalledError("pandas", "dataframe")
                         /\ a_pc' = "raised"
                         /\ UNCHANGED a_retval
                    ELSE /\ a_retval' =
                              LET empty == IF r = "dataframe"
                                           THEN <<"dataframe", <<>>, <<>>>>
                                           ELSE <<"list", <<>>>>
                              IN  IF i THEN <<"tuple", empty, <<>>>> ELSE empty
                         /\ a_pc' = "returned"
                         /\ UNCHANGED a_raised
                 /\ a_appids' = <<>>
                 /\ UNCHANGED a_idx
            ELSE /\ a_appids' = IF Tag(arg) \in {"str", "int"} THEN <<arg>> ELSE arg[2]
                 /\ a_idx' = 1
                 /\ a_pc' = "loop"
                 /\ UNCHANGED <<a_retval, a_raised>>
    /\ UNCHANGED <<a_outcomes, all_months, all_data, a_results, others_a>>

\* one turn of the loop: the fetch of one appid, its FetchResult, its record
FetchActive ==
    /\ a_pc = "loop"
    /\ a_idx <= Len(a_appids)
    /\ \E kind \in ChartOutcomes :
         LET appid == a_appids[a_idx]
             game_record == [key \in {"steam_appid"} |-> appid]
             failed(error) == FetchResult(PyStr(appid), FALSE, VNone, VStr(error))
         IN  /\ a_outcomes' = Append(a_outcomes, kind)
             /\ CASE kind[1] = "ok" ->
                       LET data == kind[2]
                           record == DictUpdate(
                               DictUpdate(game_record, monthly_data(data)),
                               [key \in {"name", "peak_active_player_all_time"} |->
                                   DictGet(data, key)])
                       IN  /\ all_months' = all_months \cup DOMAIN monthly_data(data)
                           /\ a_results' = Append(a_results,
                                  FetchResult(PyStr(appid), TRUE, VDict(record), VNone))
                           /\ all_data' = Append(all_data, record)
                  [] kind[1] = "null_months" ->
                       /\ a_results' = Append(a_results, failed(TypeError.message))
                       /\ all_data' = Append(all_data, game_record)
                       /\ UNCHANGED all_months
                  [] kind[1] = "error" ->
                       /\ a_results' = Append(a_results, failed(kind[2]))
                       /\ all_data' = Append(all_data, game_record)
                       /\ UNCHANGED all_months
                  [] kind[1] = "error_without_text" ->
                       /\ a_results' = Append(a_results, failed("Unknown error"))
                       /\ all_data' = Append(all_data, game_record)
                       /\ UNCHANGED all_months
                  [] OTHER ->
                       /\ a_results' = Append(a_results, failed(SourceCrash.message))
                       /\ all_data' = Append(all_data, game_record)
                       /\ UNCHANGED all_months
    /\ a_idx' = a_idx + 1
    /\ UNCHANGED <<a_pc, a_args, a_appids, a_retval, a_raised, others_a>>

\* after the loop: the records are normalized and returned
ReturnActive ==
    /\ a_pc = "loop"
    /\ a_idx > Len(a_appids)
    /\ LET sorted_months == sorted(all_months)
           normalized_data ==
               [k \in 1..Len(all_data) |->
                   normalized_record(all_data[k], sorted_months, a_args.fill_na_as)]
       IN  IF a_args.return_as = "dataframe" /\ ~a_args.pandas
           THEN /\ a_raised' = DependencyNotInstalledError("pandas", "dataframe")
                /\ a_pc' = "raised"
                /\ UNCHANGED a_retval
           ELSE /\ a_retval' =
                     LET payload == IF a_args.return_as = "dataframe"
                                    THEN <<"dataframe", fixed_columns \o sorted_months,
                                           normalized_data>>
                                    ELSE <<"list", normalized_data>>
                     IN  IF a_args.include_failures
                         THEN <<"tuple", payload, a_results>> ELSE payload
                /\ a_pc' = "returned"
                /\ UNCHANGED a_raised
    /\ UNCHANGED <<a_args, a_appids, a_idx, a_outcomes, all_months, all_data, a_results,
                   others_a>>

NextActive == get_games_active_player_data \/ FetchActive \/ ReturnActive


(***************************************************************************)
(* Collector.get_user_data                                                 *)
(***************************************************************************)
SteamIds == {VStr("76561198000000000"), VInt(12345)}

\* the inputs: a list of steamids, or a single str or int
UserInputs ==
    {VList(xs) : xs \in UNION {[1..n -> SteamIds] : n \in 0..MaxIds}} \cup SteamIds

\* the data of a Success of steamuser.fetch
UserData(steamid) == [steamid |-> VStr(PyStr(steamid)), nickname |-> VStr("TestUser")]

\* the ways steamuser.fetch can end: a Success, a Success without data, a
\* Failure, an exception
UserOutcomes == {<<"ok">>, <<"no_data">>, <<"error", "Request timeout">>, <<"raises">>}

\* a loop body that adds nothing for a Failure
user_entries_without_placeholder(steamid, kind) ==
    CASE kind[1] = "ok" -> <<UserData(steamid)>>
      [] OTHER -> <<>>

\* what one turn of the loop appends to results: the data of a Success, the
\* placeholder for a Failure, nothing when the fetch or the body raised
user_entries(steamid, kind) ==
    CASE kind[1] = "ok" -> <<UserData(steamid)>>
      [] kind[1] = "error" -> <<[steamid |-> steamid]>>
      [] OTHER -> <<>>

InitUserIdle ==
    /\ u_pc = "idle"
    /\ u_args = [steamids |-> VList(<<>>), return_as |-> "list", pandas |-> TRUE]
    /\ steamid_list = <<>>
    /\ u_idx = 0
    /\ u_outcomes = <<>>
    /\ results = <<>>
    /\ u_retval = VNone
    /\ u_raised = NoExc

\* the call: a single value is wrapped
get_user_data ==
    /\ u_pc = "idle"
    /\ \E arg \in UserInputs, r \in {"list", "dataframe"}, pandas \in BOOLEAN :
         /\ (r = "list" => pandas)
         /\ u_args' = [steamids |-> arg, return_as |-> r, pandas |-> pandas]
         /\ steamid_list' = IF Tag(arg) \in {"str", "int"} THEN <<arg>> ELSE arg[2]
    /\ u_idx' = 1
    /\ u_pc' = "loop"
    /\ UNCHANGED <<u_outcomes, results, u_retval, u_raised, others_u>>

\* one turn of the loop
FetchUser ==
    /\ u_pc = "loop"
    /\ u_idx <= Len(steamid_list)
    /\ \E kind \in UserOutcomes :
         /\ u_outcomes' = Append(u_outcomes, kind)
         /\ results' = results \o user_entries(steamid_list[u_idx], kind)
    /\ u_idx' = u_idx + 1
    /\ UNCHANGED <<u_pc, u_args, steamid_list, u_retval, u_raised, others_u>>

\* after the loop: the list, or the DataFrame made of it
ReturnUser ==
    /\ u_pc = "loop"
    /\ u_idx > Len(steamid_list)
    /\ IF u_args.return_as = "dataframe"
       THEN IF u_args.pandas
            THEN /\ u_retval' = <<"dataframe", results>>
                 /\ u_pc' = "returned"
                 /\ UNCHANGED u_raised
            ELSE /\ u_raised' = DependencyNotInstalledError("pandas", "dataframe")
                 /\ u_pc' = "raised"
                 /\ UNCHANGED u_retval
       ELSE /\ u_retval' = <<"list", results>>
            /\ u_pc' = "returned"
            /\ UNCHANGED u_raised
    /\ UNCHANGED <<u_args, steamid_list, u_idx, u_outcomes, results, others_u>>

NextUser == get_user_data \/ FetchUser \/ ReturnUser


(***************************************************************************)
(* GameDataModel on its own: raw field mappings of every kind              *)
(***************************************************************************)
\* the fields tried: of every validator, in and out of the recap, excluded,
\* and one key the model does not declare
RawFields ==
    {"price_final", "discount", "average_playtime_h", "protondb_score", "copies_sold",
     "name", "tags", "release_date", "is_free", "average_playtime", "game_name"}

\* the values tried for them
RawValues ==
    {VNone, VStr("x"), VInt(3), VFloat(250), VNaN, VInf, VList(<<"x">>), VDateStr(Today - 305)}

\* the raw mappings: the id present or not, and up to two other fields
RawMappings ==
    LET ids == {<<>>} \cup {[f \in {"steam_appid"} |-> v] : v \in {VStr("12345"), VInt(12345)}}
        others == {<<>>}
            \cup UNION {[{f} -> RawValues] : f \in RawFields}
            \cup UNION {[{f, "price_final"} -> RawValues] : f \in RawFields \ {"price_final"}}
    IN  {[f \in DOMAIN i \cup DOMAIN o |-> IF f \in DOMAIN i THEN i[f] ELSE o[f]] :
            i \in ids, o \in others}

NoRecapCall == [pc |-> "idle", raw |-> <<>>, model |-> <<>>, recap |-> <<>>, exc |-> NoExc]

\* GameDataModel(**raw)
Construct_GameDataModel ==
    /\ recap_call.pc = "input"
    /\ recap_call' =
         IF ConstructionError(recap_call.raw) # NoExc
         THEN [recap_call EXCEPT !.pc = "raised", !.exc = ConstructionError(recap_call.raw)]
         ELSE [recap_call EXCEPT !.pc = "built", !.model = GameDataModel(recap_call.raw)]
    /\ UNCHANGED <<request, hltb, others_n>>

\* .get_recap() of the record built
GetRecap ==
    /\ recap_call.pc = "built"
    /\ recap_call' = [recap_call EXCEPT !.pc = "recap", !.recap = get_recap(recap_call.model)]
    /\ UNCHANGED <<request, hltb, others_n>>

NextRecap == Construct_GameDataModel \/ GetRecap


(***************************************************************************)
(* gameinsights/sources/base.py: BaseSource._make_request                  *)
(***************************************************************************)
SYNTHETIC_ERROR_CODE == 599

\* the classes of requests.exceptions the session can raise, each with the
\* classes it is an instance of
RequestExceptions ==
    [ConnectionError |-> {"ConnectionError", "RequestException"},
     Timeout |-> {"Timeout", "RequestException"},
     ConnectTimeout |-> {"ConnectTimeout", "ConnectionError", "Timeout", "RequestException"},
     SSLError |-> {"SSLError", "ConnectionError", "RequestException"},
     InvalidURL |-> {"InvalidURL", "RequestException"},
     TooManyRedirects |-> {"TooManyRedirects", "RequestException"},
     HTTPError |-> {"HTTPError", "RequestException"}]

exception_to_retry == {"ConnectionError", "Timeout"}
exception_to_abort == {"InvalidURL", "SSLError", "TooManyRedirects"}

\* the except clause that handles an exception of class e: the first, in
\* source order, that names a class e is an instance of
ExceptClause(e) ==
    CASE RequestExceptions[e] \cap exception_to_retry # {} -> "retry"
      [] RequestExceptions[e] \cap exception_to_abort # {} -> "abort"
      [] "RequestException" \in RequestExceptions[e] -> "unknown"
      [] OTHER -> "uncaught"

\* the ways one session.get / session.post can end: a response with a status
\* code, or an exception
AttemptOutcomes ==
    {<<"response", status>> : status \in {200, 503}}
        \cup {<<"raises", e>> : e \in DOMAIN RequestExceptions}

\* a cooldown that doubles once too often
sleep_duration_doubled(attempts, backoff_factor) == backoff_factor * (2 ^ attempts)

\* backoff_factor * (2 ** (attempts - 1)), in tenths of a second
sleep_duration(attempts, backoff_factor) == backoff_factor * (2 ^ (attempts - 1))

\* the response _create_synthetic_response makes
_create_synthetic_response(reason) ==
    [status_code |-> SYNTHETIC_ERROR_CODE, content |-> "", reason |-> reason]

\* the most retries asked for
MaxRetries == 3

NoRequest ==
    [pc |-> "idle", method |-> "GET", retries |-> 3, backoff_factor |-> 5, attempts |-> 0,
     tried |-> <<>>, sleeps |-> <<>>, returned |-> <<>>]

\* the call, up to the loop; an empty range(1, retries + 2) falls through to
\* the last return
_make_request ==
    /\ request.pc = "idle"
    /\ \E method \in {"GET", "POST"}, retries \in (-1)..MaxRetries, backoff_factor \in {5, 10} :
         request' =
            IF retries + 2 <= 1
            THEN [request EXCEPT !.method = method, !.retries = retries,
                                 !.backoff_factor = backoff_factor, !.pc = "returned",
                                 !.returned = _create_synthetic_response("unexpected request error")]
            ELSE [request EXCEPT !.method = method, !.retries = retries,
                                 !.backoff_factor = backoff_factor, !.pc = "loop",
                                 !.attempts = 1]
    /\ UNCHANGED <<recap_call, hltb, others_n>>

\* one turn of the loop: the session call, and the except clause that
\* handles what it raised
Attempt ==
    /\ request.pc = "loop"
    /\ \E outcome \in AttemptOutcomes :
         LET tried == Append(request.tried, outcome)
             attempts == request.attempts
         IN  request' =
                IF outcome[1] = "response"
                THEN [request EXCEPT !.tried = tried, !.pc = "returned",
                         !.returned = [status_code |-> outcome[2], content |-> "body",
                                       reason |-> "OK"]]
                ELSE IF ExceptClause(outcome[2]) = "retry" /\ attempts < request.retries
                THEN [request EXCEPT !.tried = tried,
                         !.sleeps = Append(@, sleep_duration(attempts, request.backoff_factor)),
                         !.attempts = attempts + 1]
                ELSE IF ExceptClause(outcome[2]) = "uncaught"
                THEN [request EXCEPT !.tried = tried, !.pc = "raised"]
                ELSE [request EXCEPT !.tried = tried, !.pc = "returned",
                         !.returned = _create_synthetic_response(outcome[2])]
    /\ UNCHANGED <<recap_call, hltb, others_n>>

NextRequest == _make_request \/ Attempt


(***************************************************************************)
(* gameinsights/sources/howlongtobeat.py: HowLongToBeat.fetch              *)
(***************************************************************************)
_HOWLONGTOBEAT_LABELS ==
    <<"game_id", "game_name", "game_type", "comp_main", "comp_plus", "comp_100", "comp_all",
      "comp_main_count", "comp_plus_count", "comp_100_count", "comp_all_count",
      "invested_co", "invested_mp", "invested_co_count", "invested_mp_count", "count_comp",
      "count_speed_run", "count_backlog", "count_review", "review_score", "count_playing",
      "count_retired">>

\* an exception of a built-in class
BuiltinError(type, message) ==
    [type |-> type, message |-> message, identifier |-> "", source |-> "", reason |-> ""]

\* what the three requests can yield.  init: no response but the synthetic
\* one, an error status, a body that is no JSON, a JSON array, an object
\* without token, with a null, an empty or a real token.  search: the same
\* failures, a count of zero, `data` missing or empty with the count missing
\* or not zero, a first result that is no object, that has no game_id or a
\* zero one, and a proper one.  page: the failures, a page without
\* __NEXT_DATA__, with one that is no JSON, that is a JSON array, that has no
\* game list, and a proper one.
HltbOutcomes ==
    [init |-> {"synthetic_599", "status_503", "unparsable", "non_object", "no_token",
               "token_null", "token_empty", "mock_token", "other_token"},
     search |-> {"synthetic_599", "status_503", "unparsable", "non_object", "count_zero",
                 "no_count_no_data", "count_no_data", "no_count_empty_data",
                 "count_empty_data", "hit_not_object", "no_game_id", "game_id_zero",
                 "found"},
     page |-> {"synthetic_599", "status_404", "no_next_data", "unparsable",
               "next_data_non_object", "no_game_list", "page_data"}]

\* the first search result and the game of the game page
HltbData ==
    [hit |-> [game_id |-> VInt(1234), game_name |-> VStr("Mock Game: The Adventure"),
              game_type |-> VStr("game")],
     page |-> [game_id |-> VInt(1234), game_name |-> VStr("Mock Game: The Adventure"),
               comp_main_avg |-> VInt(12000)]]

\* what _get_search_token returns or raises
_get_search_token(outcome) ==
    CASE outcome = "non_object" ->
            [exc |-> BuiltinError("AttributeError", "'list' object has no attribute 'get'"),
             token |-> VNone]
      [] outcome = "token_empty" -> [exc |-> NoExc, token |-> VStr("")]
      [] outcome \in {"mock_token", "other_token"} -> [exc |-> NoExc, token |-> VStr(outcome)]
      [] OTHER -> [exc |-> NoExc, token |-> VNone]

\* _fetch_search_results and the parsing of its response in fetch: the
\* exception raised, or the error to report, or the first result
_fetch_search_results(outcome) ==
    LET gives(exc, error, first_result) ==
            [exc |-> exc, error |-> error, first_result |-> first_result]
    IN  CASE outcome \in {"synthetic_599", "status_503"} ->
                gives(NoExc, "Failed to fetch data.", EmptyDict)
          [] outcome = "unparsable" -> gives(NoExc, "Failed to parse search response.", EmptyDict)
          [] outcome = "non_object" -> gives(NoExc, "Unexpected search response format.", EmptyDict)
          [] outcome = "count_zero" -> gives(NoExc, "Game is not found.", EmptyDict)
          [] outcome \in {"no_count_no_data", "count_no_data"} -> gives(KeyError("data"), "", EmptyDict)
          [] outcome \in {"no_count_empty_data", "count_empty_data"} ->
                gives(BuiltinError("IndexError", "list index out of range"), "", EmptyDict)
          [] outcome = "hit_not_object" ->
                gives(BuiltinError("AttributeError", "'str' object has no attribute 'get'"),
                      "", EmptyDict)
          [] outcome = "no_game_id" ->
                gives(NoExc, "No game ID in search result.",
                      [f \in DOMAIN HltbData.hit \ {"game_id"} |-> HltbData.hit[f]])
          [] outcome = "game_id_zero" ->
                gives(NoExc, "No game ID in search result.",
                      [HltbData.hit EXCEPT !["game_id"] = VInt(0)])
          [] OTHER -> gives(NoExc, "", HltbData.hit)

\* what _fetch_game_page raises or returns: None, or the game of the page
_fetch_game_page(outcome) ==
    CASE outcome = "next_data_non_object" ->
            [exc |-> BuiltinError("AttributeError", "'list' object has no attribute 'get'"),
             is_none |-> TRUE, data |-> EmptyDict]
      [] outcome = "page_data" -> [exc |-> NoExc, is_none |-> FALSE, data |-> HltbData.page]
      [] OTHER -> [exc |-> NoExc, is_none |-> TRUE, data |-> EmptyDict]

\* HowLongToBeat._transform_data: the labels, the times from their _avg
\* counterparts, and seconds to minutes for every comp_ and invested_ label
_transform_data(data) ==
    [label \in Range(_HOWLONGTOBEAT_LABELS) |->
        LET raw_value ==
                IF label \in {"comp_main", "comp_plus", "comp_100", "comp_all",
                              "invested_co", "invested_mp"}
                THEN DictGet(data, label \o "_avg")
                ELSE DictGet(data, label)
        IN  IF raw_value # VNone /\ (StartsAt(label, 1, "comp_") \/ StartsAt(label, 1, "invested_"))
            THEN VInt(raw_value[2] \div 60)
            ELSE raw_value]

\* BaseSource._filter_valid_labels: the selected labels that are valid ones, in
\* the order of the selection
_filter_valid_labels(selected_labels, valid_labels) ==
    LET is_valid(label) == label \in Range(valid_labels)
    IN  SelectSeq(selected_labels, is_valid)

NoHltbCall ==
    [pc |-> "idle", game_name |-> "", selected_labels |-> <<>>, requests |-> <<>>, yields |-> <<>>, token |-> VNone,
     first_result |-> EmptyDict, result |-> NoResult, exc |-> NoExc]

\* the call
fetch ==
    /\ hltb.pc = "idle"
    /\ \E name \in {"Mock Game", "mock_name"},
          labels \in {<<>>, <<"game_name">>, <<"comp_main", "playtime", "game_id">>} :
         hltb' = [hltb EXCEPT !.pc = "token", !.game_name = name, !.selected_labels = labels]
    /\ UNCHANGED <<recap_call, request, others_n>>

\* step 1: the session token
TokenStep ==
    /\ hltb.pc = "token"
    /\ \E outcome \in HltbOutcomes.init :
         LET got == _get_search_token(outcome)
             after == [hltb EXCEPT !.requests = Append(@, "init"),
                                   !.yields = Append(@, outcome)]
         IN  hltb' =
                IF got.exc # NoExc
                THEN [after EXCEPT !.pc = "raised", !.exc = got.exc]
                ELSE IF ~Truthy(got.token)
                THEN [after EXCEPT !.pc = "returned", !.token = got.token,
                                   !.result = ErrorResult("Failed to obtain search token.")]
                ELSE [after EXCEPT !.pc = "search", !.token = got.token]
    /\ UNCHANGED <<recap_call, request, others_n>>

\* steps 2 and 3: the search and its first result
SearchStep ==
    /\ hltb.pc = "search"
    /\ \E outcome \in HltbOutcomes.search :
         LET got == _fetch_search_results(outcome)
             after == [hltb EXCEPT !.requests = Append(@, "search"),
                                   !.yields = Append(@, outcome),
                                   !.first_result = got.first_result]
         IN  hltb' =
                IF got.exc # NoExc
                THEN [after EXCEPT !.pc = "raised", !.exc = got.exc]
                ELSE IF got.error # ""
                THEN [after EXCEPT !.pc = "returned", !.result = ErrorResult(got.error)]
                ELSE [after EXCEPT !.pc = "page"]
    /\ UNCHANGED <<recap_call, request, others_n>>

\* step 4: the game page, the first result standing in for a page that could
\* not be had, the transformation and the selection of labels
PageStep ==
    /\ hltb.pc = "page"
    /\ \E outcome \in HltbOutcomes.page :
         LET got == _fetch_game_page(outcome)
             after == [hltb EXCEPT !.requests = Append(@, "page"),
                                   !.yields = Append(@, outcome)]
             full_data == IF got.is_none THEN hltb.first_result ELSE got.data
             transformed == _transform_data(full_data)
             data_packed ==
                IF hltb.selected_labels # <<>>
                THEN [label \in Range(_filter_valid_labels(hltb.selected_labels,
                                                           _HOWLONGTOBEAT_LABELS))
                        |-> transformed[label]]
                ELSE transformed
         IN  hltb' =
                IF got.exc # NoExc
                THEN [after EXCEPT !.pc = "raised", !.exc = got.exc]
                ELSE [after EXCEPT !.pc = "returned",
                                   !.result = SuccessResult(data_packed)]
    /\ UNCHANGED <<recap_call, request, others_n>>

NextHltb == fetch \/ TokenStep \/ SearchStep \/ PageStep


(***************************************************************************)
(* The specifications: each starts with the other parts idle.              *)
(***************************************************************************)
\* no stand-alone call of the record model or of a source is in progress
InitStandAloneIdle ==
    /\ recap_call = NoRecapCall
    /\ request = NoRequest
    /\ hltb = NoHltbCall

\* no part of the program outside get_games_data and the classifier is active
InitOthersIdle ==
    InitLifecycleIdle /\ InitWrapperIdle /\ InitActiveIdle /\ InitUserIdle /\ InitStandAloneIdle

Init == InitCollector /\ InitClassifyIdle /\ InitOthersIdle

Spec == Init /\ [][Next]_vars

InitClassify ==
    /\ InitCollector
    /\ InitOthersIdle
    /\ c_pc = "input"
    /\ c_source \in SourceNames
    /\ c_msg \in Messages
    /\ c_primary = FALSE
    /\ c_exc = NoExc

SpecClassify == InitClassify /\ [][NextClassify]_vars

InitLifecycle ==
    /\ InitCollector /\ InitClassifyIdle /\ InitLifecycleIdle /\ InitWrapperIdle
    /\ InitActiveIdle /\ InitUserIdle /\ InitStandAloneIdle

SpecLifecycle == InitLifecycle /\ [][NextLifecycle]_vars

\* one Collector, constructed with any arguments
InitConfig ==
    /\ InitCollector
    /\ InitClassifyIdle
    /\ InitWrapperIdle
    /\ InitActiveIdle
    /\ InitUserIdle
    /\ InitStandAloneIdle
    /\ \E region \in RegionValues, language \in LanguageValues,
          steam_api_key \in ApiKeyValues, gamalytic_api_key \in ApiKeyValues :
         collectors = [c \in CollectorIds |->
             IF c = "c1"
             THEN NewCollector(region, language, steam_api_key, gamalytic_api_key, 1)
             ELSE NoCollector]
    /\ sessions = <<NewSession>>
    /\ close_calls = [c \in CollectorIds |-> 0]
    /\ l_set = NoAssignment

SpecConfig == InitConfig /\ [][NextConfig]_vars

InitWrapper ==
    /\ InitCollector
    /\ InitClassifyIdle
    /\ InitLifecycleIdle
    /\ InitActiveIdle
    /\ InitUserIdle
    /\ InitStandAloneIdle
    /\ w_pc = "input"
    /\ \E call \in WrappedCalls :
         /\ w_source = call[1]
         /\ w_scope = call[2]
         /\ w_identifier = call[3]
         /\ w_kind \in {kind \in OutcomeKinds(call[1]) : Possible(call[1], call[3], kind)}
    /\ w_out = NoOutput
    /\ w_metrics = [n \in MetricNames |-> 0]
    /\ w_calls = 0

SpecWrapper == InitWrapper /\ [][NextWrapper]_vars

SpecActive == Init /\ [][NextActive]_vars

SpecUser == Init /\ [][NextUser]_vars

InitRecap ==
    /\ InitCollector /\ InitClassifyIdle
    /\ InitLifecycleIdle /\ InitWrapperIdle /\ InitActiveIdle /\ InitUserIdle
    /\ recap_call \in {[NoRecapCall EXCEPT !.pc = "input", !.raw = raw] : raw \in RawMappings}
    /\ request = NoRequest
    /\ hltb = NoHltbCall

SpecRecap == InitRecap /\ [][NextRecap]_vars

SpecRequest == Init /\ [][NextRequest]_vars

SpecHltb == Init /\ [][NextHltb]_vars

\* the calling thread runs on until _make_request returns
SpecRequestFair == SpecRequest /\ WF_vars(NextRequest)

(***************************************************************************)
(* Properties of the classifier                                            *)
(***************************************************************************)
\* the rules of the classification, each stated on the lowercased message
RuleMatches(k, lowered) ==
    CASE k = 1 -> Contains(lowered, "not available in the specified region")
      [] k = 2 -> Contains(lowered, "failed to parse")
      [] k = 3 -> Contains(lowered, "failed to fetch") \/ Contains(lowered, "failed to obtain")
      [] k = 4 -> \E w \in {"status code: 599", "failed to connect", "connection",
                            "timeout", "ssl", "toomanyredirects"} : Contains(lowered, w)
      [] k = 5 -> StatusMatches(lowered)
      [] k = 6 -> Contains(lowered, "not found")
      [] OTHER -> TRUE

\* the first rule that matches; rule 7 is the fallback
FirstRule(lowered) == CHOOSE k \in 1..7 :
    RuleMatches(k, lowered) /\ \A j \in 1..(k - 1) : ~RuleMatches(j, lowered)

RuleOutcome(k) ==
    CASE k \in {1, 6} -> "GameNotFoundError"
      [] k \in 2..5 -> "SourceUnavailableError"
      [] OTHER -> "GameInsightsError"

\* the two forms of an HTTP error status: "status code: NNN" and "status NNN"
\* with NNN in 400..599
HttpErrorStatus(lowered) ==
    \E prefix \in {"status code: ", "status "} :
        \E i \in 1..Len(lowered) :
            /\ StartsAt(lowered, i, prefix)
            /\ i + Len(prefix) + 2 <= Len(lowered)
            /\ CharAt(lowered, i + Len(prefix)) \in {"4", "5"}
            /\ IsDigit(CharAt(lowered, i + Len(prefix) + 1))
            /\ IsDigit(CharAt(lowered, i + Len(prefix) + 2))

\* C11 as stated: every message with an HTTP 4xx/5xx status, in either form,
\* classifies as SourceUnavailableError, whatever else it contains.
C11_StatusIsUnavailable ==
    (c_pc = "classified" /\ HttpErrorStatus(Lower(c_msg))) =>
        c_exc = SourceUnavailableError(c_source, c_msg)

\* C11: a message with an HTTP 4xx/5xx status, in either form, that does not
\* contain "not available in the specified region" classifies as
\* SourceUnavailableError carrying the source's name and the message, also
\* when it contains "not found"; with the region phrase it is
\* GameNotFoundError.
C11_StatusIsUnavailableOutsideRegion ==
    (c_pc = "classified" /\ HttpErrorStatus(Lower(c_msg))) =>
        IF Contains(Lower(c_msg), "not available in the specified region")
        THEN c_exc.type = "GameNotFoundError"
        ELSE c_exc = SourceUnavailableError(c_source, c_msg)

\* "status 404" next to "not found", and no rule before the status rule matches
C11_Witness ==
    /\ c_pc = "classified"
    /\ HttpErrorStatus(Lower(c_msg))
    /\ Contains(Lower(c_msg), "status 404")
    /\ Contains(Lower(c_msg), "not found")
    /\ FirstRule(Lower(c_msg)) = 5
    /\ c_exc.type = "SourceUnavailableError"

C8_FirstMatchWins ==
    c_pc = "classified" =>
        /\ c_exc.type = RuleOutcome(FirstRule(Lower(c_msg)))
        /\ c_exc.type = "SourceUnavailableError" =>
               c_exc.source = c_source /\ c_exc.reason = c_msg
        /\ c_exc.type = "GameInsightsError" => c_exc.message = c_msg
        /\ c_exc.type = "GameNotFoundError" /\ c_msg # "" => c_exc.message = c_msg
        /\ _classify_source_error(c_source, Lower(c_msg)).type = c_exc.type
        /\ _classify_source_error(c_source, Lower(c_msg)).identifier = c_exc.identifier

\* a message matching a later rule as well as an earlier one got the earlier
\* rule's outcome
C8_Witness ==
    /\ c_pc = "classified"
    /\ \E j, k \in 1..6 :
         /\ j < k
         /\ RuleMatches(j, Lower(c_msg)) /\ RuleMatches(k, Lower(c_msg))
         /\ RuleOutcome(j) # RuleOutcome(k)
         /\ c_exc.type = RuleOutcome(j)

\* the digits that follow the word "appid", or "unknown"
DigitsAfterAppid(lowered) ==
    LET starts == {i \in 1..Len(lowered) :
                      /\ StartsAt(lowered, i, "appid")
                      /\ \E d \in (i + 5)..Len(lowered) :
                           /\ IsDigit(CharAt(lowered, d))
                           /\ \A m \in (i + 5)..(d - 1) : IsSpace(CharAt(lowered, m))}
    IN  IF starts = {} THEN "unknown"
        ELSE LET i == CHOOSE k \in starts : \A m \in starts : k <= m
                 d == CHOOSE k \in (i + 5)..Len(lowered) :
                          /\ IsDigit(CharAt(lowered, k))
                          /\ \A m \in (i + 5)..(k - 1) : IsSpace(CharAt(lowered, m))
                 e == CHOOSE k \in d..Len(lowered) :
                          /\ \A m \in d..k : IsDigit(CharAt(lowered, m))
                          /\ (k = Len(lowered) \/ ~IsDigit(CharAt(lowered, k + 1)))
             IN  SubSeq(lowered, d, e)

\* C9 as stated: a message containing "not available in the specified
\* region" gives NotFound whose hint is the digits following "appid", and
\* "unknown" when no digits follow it.
C9_HintIsDigits ==
    (c_pc = "classified" /\ RuleMatches(1, Lower(c_msg))) =>
        /\ c_exc.type = "GameNotFoundError"
        /\ c_exc.identifier = DigitsAfterAppid(Lower(c_msg))

\* the token after the first "appid" that whitespace and a non-blank
\* character follow, without its trailing "." and ",", or "unknown"
TokenAfterAppid(lowered) ==
    LET starts == {i \in 1..Len(lowered) :
                      /\ StartsAt(lowered, i, "appid")
                      /\ \E b \in (i + 6)..Len(lowered) :
                           /\ ~IsSpace(CharAt(lowered, b))
                           /\ \A m \in (i + 5)..(b - 1) : IsSpace(CharAt(lowered, m))}
    IN  IF starts = {} THEN "unknown"
        ELSE LET i == CHOOSE k \in starts : \A m \in starts : k <= m
                 b == CHOOSE k \in (i + 6)..Len(lowered) :
                          /\ ~IsSpace(CharAt(lowered, k))
                          /\ \A m \in (i + 5)..(k - 1) : IsSpace(CharAt(lowered, m))
                 e == CHOOSE k \in b..Len(lowered) :
                          /\ \A m \in b..k : ~IsSpace(CharAt(lowered, m))
                          /\ (k = Len(lowered) \/ IsSpace(CharAt(lowered, k + 1)))
                 n == CHOOSE k \in (b - 1)..e :
                          /\ \A m \in (k + 1)..e : CharAt(lowered, m) \in {".", ","}
                          /\ (k = b - 1 \/ CharAt(lowered, k) \notin {".", ","})
             IN  SubSeq(lowered, b, n)

\* C9 amended: a message containing "not available in the specified region"
\* gives NotFound whose hint is the first whitespace-delimited token after
\* "appid" in the lowercased message, trailing "." and "," removed, whether
\* or not it consists of digits, and "unknown" when there is no such token.
C9_HintIsToken ==
    (c_pc = "classified" /\ RuleMatches(1, Lower(c_msg))) =>
        /\ c_exc.type = "GameNotFoundError"
        /\ c_exc.identifier = TokenAfterAppid(Lower(c_msg))

\* a region message whose hint was taken from the text after "appid" and is
\* not a number
C9_Witness ==
    /\ c_pc = "classified" /\ RuleMatches(1, Lower(c_msg))
    /\ c_exc.identifier \notin {"unknown", ""}
    /\ \E m \in 1..Len(c_exc.identifier) : ~IsDigit(CharAt(c_exc.identifier, m))

\* C10 as stated: a message containing both "failed to parse" and
\* "not found" classifies as Unavailable, whatever else it contains.
C10_ParseBeatsNotFound ==
    (/\ c_pc = "classified"
     /\ RuleMatches(2, Lower(c_msg)) /\ RuleMatches(6, Lower(c_msg))) =>
        c_exc.type = "SourceUnavailableError"

\* C10 amended: a message containing both "failed to parse" and "not found"
\* but not "not available in the specified region" classifies as Unavailable
\* naming the source, never as NotFound.
C10_ParseBeatsNotFoundOutsideRegion ==
    (/\ c_pc = "classified"
     /\ RuleMatches(2, Lower(c_msg)) /\ RuleMatches(6, Lower(c_msg))
     /\ ~RuleMatches(1, Lower(c_msg))) =>
        c_exc = SourceUnavailableError(c_source, c_msg)

\* a parse error that mentions "not found" was classified
C10_Witness ==
    /\ c_pc = "classified"
    /\ RuleMatches(2, Lower(c_msg)) /\ RuleMatches(6, Lower(c_msg))
    /\ ~RuleMatches(1, Lower(c_msg))
    /\ c_exc.type = "SourceUnavailableError"

(***************************************************************************)
(* Properties of get_games_data and _fetch_raw_data                        *)
(***************************************************************************)
\* the fields a source's binding declares
FieldsOf(source) ==
    IF source = "HowLongToBeat" THEN Range(_name_based_sources[1].fields)
    ELSE Range(_id_based_sources[SourceNumber(source)].fields)

\* the source calls made for list position k
CallsAt(k) == {c \in Range(calls) : c.pos = k}

\* the fetch of list position k is over
Fetched(k) == k >= 1 /\ (idx > k \/ (pc = "raised" /\ idx = k))

\* every source call for position k returned a well-formed Success or a Failure
OnlyFailuresAt(k) == \A c \in CallsAt(k) : c.outcome \in {"ok", "error"}

\* the value of field f in a record, given what the call c returned
ReportedBy(c, f) ==
    JsonValue(Validate(f, ResultOf(c.source, c.identifier, <<"ok">>).data[f]))

\* C2 as stated: in absorb mode, whatever Failure results the sources return,
\* the fetch of an identifier does not raise and gives a record whose id is
\* set, in which every field of a failed source has its schema default and
\* every field of a succeeded source has that source's value.
C2_AbsorbRecordFollowsSources ==
    \A k \in 1..Len(appid_list) :
        (~raise_on_error /\ Fetched(k) /\ OnlyFailuresAt(k)) =>
            /\ k <= Len(all_results)
            /\ all_results[k].success
            /\ LET rec == all_results[k].data[2]
               IN  /\ rec["steam_appid"] = VStr(PyStr(appid_list[k]))
                   /\ \A c \in CallsAt(k) :
                        \A f \in (FieldsOf(c.source) \cap DOMAIN rec) \ {"steam_appid"} :
                            IF c.outcome = "error"
                            THEN rec[f] = FieldDefault(f)
                            ELSE rec[f] = ReportedBy(c, f)

\* C3: in propagate mode a Failure of the primary source ends the batch at
\* once: get_games_data has raised a GameInsightsError at that identifier,
\* which is the first whose primary source failed, has returned nothing, and
\* no source call follows the failed one.
C3_PropagateStopsAtFirstFailure ==
    \A n \in 1..Len(calls) :
        (raise_on_error /\ calls[n].source = "SteamStore" /\ calls[n].outcome = "error") =>
            /\ pc = "raised"
            /\ raised.type \in {"GameNotFoundError", "SourceUnavailableError",
                                "GameInsightsError"}
            /\ retval = VNone
            /\ n = Len(calls)
            /\ idx = calls[n].pos
            /\ \A m \in 1..(n - 1) :
                 ~(calls[m].source = "SteamStore" /\ calls[m].outcome = "error")

\* a batch with include_failures that had collected one record raised at its
\* second identifier
C3_Witness ==
    /\ pc = "raised" /\ raise_on_error /\ include_failures
    /\ idx = 2 /\ Len(result) = 1
    /\ calls[Len(calls)].source = "SteamStore"
    /\ calls[Len(calls)].outcome = "error"

C5_PrimaryFailureIsTracked ==
    (pc = "returned" /\ ~raise_on_error /\ include_failures) =>
        /\ \A k \in 1..Len(appid_list) :
             (\E c \in CallsAt(k) : c.source = "SteamStore" /\ c.outcome = "error") =>
                 /\ ~all_results[k].success
                 /\ Tag(all_results[k].error) = "str"
                 /\ \E t \in FailureTexts : Contains(all_results[k].error[2], t)
        /\ Len(result) <= Cardinality({k \in 1..Len(appid_list) :
               ~\E c \in CallsAt(k) : c.source = "SteamStore" /\ c.outcome = "error"})

\* C6 as stated: when the primary source succeeds for an identifier, whatever
\* Failures the other sources return, nothing is raised for it, its outcome
\* has success=True, and its record is in the data list with the primary
\* source's values and the defaults for the fields of the failed sources.
C6_SupplementaryNeverGates ==
    \A k \in 1..Len(appid_list) :
        (/\ Fetched(k) /\ OnlyFailuresAt(k)
         /\ \E c \in CallsAt(k) : c.source = "SteamStore" /\ c.outcome = "ok") =>
            /\ ~(pc = "raised" /\ idx = k)
            /\ k <= Len(all_results)
            /\ all_results[k].success
            /\ LET rec == all_results[k].data[2]
               IN  /\ \E j \in 1..Len(result) : result[j] = rec
                   /\ \A c \in CallsAt(k) :
                        \A f \in FieldsOf(c.source) \cap DOMAIN rec :
                            /\ c.source = "SteamStore" => rec[f] = ReportedBy(c, f)
                            /\ c.outcome = "error" => rec[f] = FieldDefault(f)

\* C7: for the empty list no source is called: in propagate mode
\* InvalidRequestError is raised, whatever include_failures is, and otherwise
\* [] is returned, or ([], []) with include_failures; a non-empty list never
\* raises InvalidRequestError.
C7_EmptyList ==
    /\ (pc # "idle" /\ steam_appids = VList(<<>>)) =>
           /\ calls = <<>>
           /\ IF raise_on_error
              THEN /\ pc = "raised"
                   /\ raised = InvalidRequestError(
                          "steam_appids must be a non-empty string or list.")
                   /\ retval = VNone
              ELSE /\ raised = NoExc
                   /\ pc \in {"loop", "returned"}
                   /\ pc = "returned" =>
                          retval = IF include_failures THEN <<"tuple", <<>>, <<>>>>
                                   ELSE <<"list", <<>>>>
    /\ (Tag(steam_appids) = "list" /\ steam_appids[2] # <<>>) =>
           raised.type # "InvalidRequestError"

\* the empty list was refused in propagate mode although include_failures
C7_Witness ==
    /\ pc = "raised" /\ steam_appids = VList(<<>>) /\ include_failures
    /\ raised.type = "InvalidRequestError"

\* the store's call for list position k left a non-empty name in the accumulator
StoreGaveName(k) ==
    \E p \in CallsAt(k) :
        p.source = "SteamStore" /\ p.scope = "id" /\ p.outcome \in {"ok", "foreign_appid"}

\* C12: the name-keyed sources are queried for an identifier exactly when the
\* accumulator's name is non-empty after the id-keyed loop, each once, and
\* with that name, not the appid, as the lookup key; when the primary source
\* failed or gave a null or empty name, no name-keyed source is called.
C12_NameSourcesFollowName ==
    /\ \A c \in Range(calls) :
         c.scope = "name" =>
             /\ StoreGaveName(c.pos)
             /\ c.identifier = "Mock Game"
             /\ c.identifier # PyStr(appid_list[c.pos])
             /\ \E j \in 1..Len(_name_based_sources) : c.source = _name_based_sources[j].source
             /\ \A p \in CallsAt(c.pos) :
                  p.source = "SteamStore" => p.outcome \notin {"error", "empty_name", "no_name"}
    /\ pc = "name_sources" =>
         /\ Truthy(game_name(raw_data))
         /\ StoreGaveName(idx)
    /\ pc = "build" =>
         /\ (\E c \in CallsAt(idx) : c.scope = "name") <=> Truthy(game_name(raw_data))
         /\ Truthy(game_name(raw_data)) <=> StoreGaveName(idx)
         /\ Truthy(game_name(raw_data)) =>
              \A j \in 1..Len(_name_based_sources) :
                  \E c \in CallsAt(idx) :
                      /\ c.scope = "name"
                      /\ c.source = _name_based_sources[j].source
                      /\ c.identifier = game_name(raw_data)[2]

\* a batch of two: the store failed for the first, which got no name-keyed
\* call, and gave a name for the second, which got one
C12_Witness ==
    /\ pc = "returned"
    /\ Len(appid_list) = 2
    /\ \E p \in CallsAt(1) : p.source = "SteamStore" /\ p.outcome = "error"
    /\ ~\E c \in CallsAt(1) : c.scope = "name"
    /\ Cardinality(CallsAt(1)) = Len(_id_based_sources)
    /\ \E c \in CallsAt(2) : c.scope = "name" /\ c.identifier = "Mock Game"

\* the identifiers of the input, a single value counting as a list of one
InputIds ==
    IF Tag(steam_appids) \in {"str", "int"} THEN <<steam_appids>> ELSE steam_appids[2]

\* the data of the successful outcomes, in their order
DataOfSuccesses(rs) ==
    LET succ == SelectSeq(rs, LAMBDA r : r.success)
    IN  [k \in 1..Len(succ) |-> succ[k].data[2]]

\* C13: when get_games_data returns under include_failures, the outcome list
\* holds exactly one FetchResult per input identifier, in input order, with
\* the identifier as a string; data is set and error null when success is
\* true, error is set and data null when it is false; and the data list is
\* the data of the successful outcomes in the same order.
C13_OneOutcomePerIdentifier ==
    (pc = "returned" /\ include_failures) =>
        /\ retval = <<"tuple", result, all_results>>
        /\ Len(all_results) = Len(InputIds)
        /\ \A k \in 1..Len(all_results) :
             /\ k <= Len(InputIds) => all_results[k].identifier = PyStr(InputIds[k])
             /\ IF all_results[k].success
                THEN Tag(all_results[k].data) = "dict" /\ all_results[k].error = VNone
                ELSE all_results[k].data = VNone /\ Tag(all_results[k].error) = "str"
        /\ result = DataOfSuccesses(all_results)

\* a batch of 99999 and "12345" returned with a failed outcome followed by a
\* successful one
C13_Witness ==
    /\ pc = "returned" /\ include_failures
    /\ Len(all_results) = 2
    /\ ~all_results[1].success /\ all_results[1].identifier = "99999"
    /\ all_results[2].success /\ all_results[2].identifier = "12345"
    /\ Len(result) = 1

\* C14 as stated: duplicate identifiers are processed independently: a later
\* occurrence of an identifier gets its own round of source calls and its own
\* outcome, and where a source that succeeded for the earlier occurrence
\* fails for the later one, the later record has the default for every field
\* of that source (the id field, which is seeded from the identifier, aside).
C14_DuplicatesIndependent ==
    \A j \in 1..Len(appid_list), k \in 1..Len(appid_list) :
        (j < k /\ appid_list[j] = appid_list[k] /\ idx > k) =>
            /\ Len(all_results) >= k
            /\ all_results[k].identifier = PyStr(appid_list[k])
            /\ \E c \in CallsAt(k) : c.source = "SteamStore" /\ c.scope = "id"
            /\ \A c \in CallsAt(k) : c.scope = "id" => c.identifier = PyStr(appid_list[k])
            /\ all_results[k].success =>
                 /\ \A n \in 1..Len(_id_based_sources) :
                      \E c \in CallsAt(k) : c.source = _id_based_sources[n].source
                 /\ \A c \in CallsAt(k) :
                      (/\ c.outcome = "error"
                       /\ \E p \in CallsAt(j) : p.source = c.source /\ p.outcome = "ok") =>
                          \A f \in (FieldsOf(c.source) \cap DOMAIN all_results[k].data[2])
                                        \ {"steam_appid"} :
                              all_results[k].data[2][f] = FieldDefault(f)

(***************************************************************************)
(* Properties of the Collector's life                                      *)
(***************************************************************************)
\* C15: releasing the session is idempotent: over any sequence of close()
\* calls and context-manager exits on one Collector, its session's close()
\* has been invoked exactly once as soon as the first of them is over and
\* never again, and _closed is true from then on.
C15_CloseIsIdempotent ==
    \A c \in CollectorIds :
        collectors[c].constructed =>
            /\ sessions[collectors[c]._session].closes = IF close_calls[c] > 0 THEN 1 ELSE 0
            /\ collectors[c]._closed <=> close_calls[c] > 0

\* a Collector after its second close() or exit: the session was closed once
C15_Witness ==
    \E c \in CollectorIds :
        /\ collectors[c].constructed
        /\ close_calls[c] = 2
        /\ collectors[c]._closed
        /\ sessions[collectors[c]._session].closes = 1

\* C16: sessions are never shared between Collectors: every source of a
\* Collector uses that Collector's session, two Collectors never hold the
\* same session, and a Collector's session stays open, whatever is done to
\* other Collectors, until that Collector itself is closed.
C16_SessionsNotShared ==
    /\ \A c \in CollectorIds :
         collectors[c].constructed =>
             /\ collectors[c]._session \in 1..Len(sessions)
             /\ \A a \in SourceAttributes :
                  collectors[c].source_session[a] = collectors[c]._session
             /\ close_calls[c] = 0 => sessions[collectors[c]._session].closes = 0
    /\ \A c \in CollectorIds, d \in CollectorIds :
         (c # d /\ collectors[c].constructed /\ collectors[d].constructed) =>
             /\ collectors[c]._session # collectors[d]._session
             /\ \A a \in SourceAttributes, b \in SourceAttributes :
                  collectors[c].source_session[a] # collectors[d].source_session[b]

\* two Collectors, the first closed, the second still open
C16_Witness ==
    /\ collectors["c1"].constructed /\ collectors["c2"].constructed
    /\ close_calls["c1"] > 0 /\ close_calls["c2"] = 0
    /\ sessions[collectors["c1"]._session].closes = 1
    /\ sessions[collectors["c2"]._session].closes = 0
    /\ collectors["c2"].source_session["steamstore"] = collectors["c2"]._session

\* C18: after an assignment to a configuration property with a value other
\* than the current one, the Collector has the value and so has every
\* dependent source (region, language: SteamStore; steam_api_key: SteamStore,
\* SteamAchievements, SteamUser; gamalytic_api_key: Gamalytic); after an
\* assignment of the current value nothing has changed, so a value set on a
\* source itself stays; either way the bindings, the other configuration
\* values, the other sources' attributes and the session are as before.
C18_SettersPropagate ==
    LET b == l_set.before
        a == collectors[l_set.c]
        v == l_set.value
    IN  /\ l_set.target \in {"region", "language", "steam_api_key", "gamalytic_api_key"} =>
             /\ a.id_based_sources = b.id_based_sources
             /\ a.name_based_sources = b.name_based_sources
             /\ a.id_based_sources = _id_based_sources
             /\ a._session = b._session /\ a.source_session = b.source_session
             /\ a._closed = b._closed
        /\ l_set.target = "region" =>
             IF b._region = v[2] THEN a = b
             ELSE a = [b EXCEPT !._region = v[2], !.steamstore.region = v[2]]
        /\ l_set.target = "language" =>
             IF b._language = v[2] THEN a = b
             ELSE a = [b EXCEPT !._language = v[2], !.steamstore.language = v[2]]
        /\ l_set.target = "steam_api_key" =>
             IF b._steam_api_key = v THEN a = b
             ELSE a = [b EXCEPT !._steam_api_key = v, !.steamstore.api_key = v,
                                !.steamachievements.api_key = v, !.steamuser.api_key = v]
        /\ l_set.target = "gamalytic_api_key" =>
             IF b._gamalytic_api_key = v THEN a = b
             ELSE a = [b EXCEPT !._gamalytic_api_key = v, !.gamalytic.api_key = v]

\* the region was assigned its current value while the store had a region of
\* its own: the store's region stayed
C18_Witness ==
    /\ l_set.target = "region"
    /\ l_set.before._region = l_set.value[2]
    /\ l_set.before.steamstore.region # l_set.value[2]
    /\ collectors[l_set.c].steamstore.region # collectors[l_set.c]._region
    /\ collectors[l_set.c]._steam_api_key # VNone
    /\ collectors[l_set.c].steamuser.api_key = collectors[l_set.c]._steam_api_key

(***************************************************************************)
(* Properties of the observability wrapper                                 *)
(***************************************************************************)
\* C17: the wrapper is transparent to control flow: when the source returns
\* a SourceResult, Success or Failure, the wrapper returns that very result
\* and raises nothing; when the source raises, the wrapper raises that same
\* exception and returns nothing.
C17_WrapperIsTransparent ==
    w_pc = "done" =>
        IF w_kind = <<"raises">>
        THEN /\ w_out.exc = SourceCrash
             /\ w_out.result = NoResult
             /\ w_out.counters = <<"source_fetch_exception_total">>
        ELSE /\ w_out.exc = NoExc
             /\ w_out.result = ResultOf(w_source, w_identifier, w_kind)
             /\ w_out.result.success <=> w_kind[1] # "error"
             /\ w_kind[1] = "error" => w_out.result = ErrorResult(w_kind[2])

\* the wrapped source raised, and the wrapper raised the same exception
C17_Witness ==
    /\ w_pc = "done"
    /\ w_kind = <<"raises">>
    /\ w_out.exc = SourceCrash
    /\ w_out.events = <<"source_fetch_start", "source_fetch_exception">>

\* how often a step occurs in what the last wrapped call did
StepCount(name) == Cardinality({k \in 1..Len(w_out.steps) : w_out.steps[k] = name})

\* C24: each wrapped call emits the start event before it calls the source.
\* If the source returns, the call emits one source_fetch_total, one of the
\* success and error counters, the one matching the result, and one complete
\* event, and nothing about an exception; if the source raises, it emits one
\* exception counter and one exception event and none of the others.  After
\* any sequence of calls total = success + error and start = total +
\* exceptions.
C24_OneOutcomePerCall ==
    /\ w_pc = "done" =>
         /\ w_out.steps[1] = "source_fetch_start"
         /\ w_out.steps[2] = "source.fetch"
         /\ StepCount("source_fetch_start") = 1
         /\ StepCount("source.fetch") = 1
         /\ IF w_kind = <<"raises">>
            THEN /\ StepCount("source_fetch_exception_total") = 1
                 /\ StepCount("source_fetch_exception") = 1
                 /\ \A n \in {"source_fetch_total", "source_fetch_success_total",
                              "source_fetch_error_total", "source_fetch_complete"} :
                        StepCount(n) = 0
                 /\ w_out.counters = <<"source_fetch_exception_total">>
            ELSE /\ StepCount("source_fetch_total") = 1
                 /\ StepCount("source_fetch_complete") = 1
                 /\ StepCount("source_fetch_success_total") =
                        (IF w_out.result.success THEN 1 ELSE 0)
                 /\ StepCount("source_fetch_error_total") =
                        (IF w_out.result.success THEN 0 ELSE 1)
                 /\ StepCount("source_fetch_exception_total") = 0
                 /\ StepCount("source_fetch_exception") = 0
    /\ w_metrics["source_fetch_total"] =
           w_metrics["source_fetch_success_total"] + w_metrics["source_fetch_error_total"]
    /\ w_metrics["source_fetch_start"] =
           w_metrics["source_fetch_total"] + w_metrics["source_fetch_exception_total"]
    /\ w_metrics["source_fetch_start"] = w_calls

\* three calls were made: one succeeded, one failed, one raised
C24_Witness ==
    /\ w_pc = "done" /\ w_calls = 3
    /\ w_kind = <<"raises">>
    /\ w_metrics["source_fetch_success_total"] = 1
    /\ w_metrics["source_fetch_error_total"] = 1
    /\ w_metrics["source_fetch_exception_total"] = 1
    /\ w_metrics["source_fetch_start"] = 3

(***************************************************************************)
(* Properties of get_games_active_player_data                              *)
(***************************************************************************)
\* the appids of the input, a single value counting as a list of one
ActiveInputIds ==
    IF ~Truthy(a_args.steam_appids) THEN <<>>
    ELSE IF Tag(a_args.steam_appids) \in {"str", "int"} THEN <<a_args.steam_appids>>
    ELSE a_args.steam_appids[2]

\* the records returned, whether as a list or as the rows of a DataFrame
ActiveRecords ==
    LET payload == IF a_args.include_failures THEN a_retval[2] ELSE a_retval
    IN  IF payload[1] = "dataframe" THEN payload[3] ELSE payload[2]

\* the months of the Success results of the batch
MonthsSeen ==
    UNION {{a_outcomes[k][2].monthly_active_player[j].month :
                j \in 1..Len(a_outcomes[k][2].monthly_active_player)} :
           k \in {i \in 1..Len(a_outcomes) :
                    /\ a_outcomes[i][1] = "ok"
                    /\ "monthly_active_player" \in DOMAIN a_outcomes[i][2]}}

\* what the fetch for list position k reported for a column; None for nothing
ReportedCell(k, col) ==
    IF a_outcomes[k][1] # "ok" THEN VNone
    ELSE LET data == a_outcomes[k][2]
         IN  IF col \in {"name", "peak_active_player_all_time"}
             THEN (IF col \in DOMAIN data THEN data[col] ELSE VNone)
             ELSE IF "monthly_active_player" \in DOMAIN data
                     /\ \E j \in 1..Len(data.monthly_active_player) :
                            data.monthly_active_player[j].month = col
             THEN data.monthly_active_player[
                      CHOOSE j \in 1..Len(data.monthly_active_player) :
                          data.monthly_active_player[j].month = col].average_players
             ELSE VNone

\* C19: get_games_active_player_data returns one record per input appid, in
\* input order, also for appids whose fetch failed or raised; every record has
\* the keys steam_appid, name, peak_active_player_all_time and then the months
\* seen in the batch in sorted order; a numeric cell (peak, months) is the
\* reported value, or fill_na_as where none or null was reported, while a
\* missing name stays null; with include_failures there is one FetchResult
\* per appid, successful exactly for the appids whose fetch gave a Success.
C19_ActiveRecordsAreUniform ==
    a_pc = "returned" =>
        /\ Len(ActiveRecords) = Len(ActiveInputIds)
        /\ \A k \in 1..Len(ActiveRecords) :
             LET row == ActiveRecords[k]
             IN  /\ Len(row) = 3 + Cardinality(MonthsSeen)
                 /\ row[1][1] = "steam_appid" /\ row[1][2] = ActiveInputIds[k]
                 /\ row[2][1] = "name" /\ row[2][2] = ReportedCell(k, "name")
                 /\ row[3][1] = "peak_active_player_all_time"
                 /\ {row[j][1] : j \in 4..Len(row)} = MonthsSeen
                 /\ \A i \in 4..Len(row), j \in 4..Len(row) :
                      i < j => StrLess(row[i][1], row[j][1])
                 /\ \A j \in 3..Len(row) :
                      row[j][2] = IF ReportedCell(k, row[j][1]) = VNone
                                  THEN VInt(a_args.fill_na_as)
                                  ELSE ReportedCell(k, row[j][1])
        /\ a_args.include_failures =>
             /\ a_retval[1] = "tuple"
             /\ Len(a_retval[3]) = Len(ActiveInputIds)
             /\ \A k \in 1..Len(a_retval[3]) :
                  /\ a_retval[3][k].identifier = PyStr(ActiveInputIds[k])
                  /\ a_retval[3][k].success <=> a_outcomes[k][1] = "ok"
        /\ ~a_args.include_failures => a_retval[1] \in {"list", "dataframe"}

\* a batch of two returned with failures listed: the first appid came with a
\* null month and a zero month, the fetch of the second raised, and the second
\* record holds fill_na_as for both months
C19_Witness ==
    /\ a_pc = "returned" /\ a_args.include_failures /\ a_args.return_as = "list"
    /\ Len(ActiveRecords) = 2
    /\ a_outcomes[1][1] = "ok" /\ a_outcomes[2][1] = "raises"
    /\ Len(ActiveRecords[1]) = 5
    /\ ActiveRecords[1][4] = <<"June 1234", VInt(0)>>
    /\ ActiveRecords[1][5] = <<"May 1234", VInt(a_args.fill_na_as)>>
    /\ ActiveRecords[2][4] = <<"June 1234", VInt(a_args.fill_na_as)>>
    /\ ActiveRecords[2][2] = <<"name", VNone>>
    /\ ~a_retval[3][2].success

(***************************************************************************)
(* Properties of get_user_data                                             *)
(***************************************************************************)
\* what the turns for the first n steamids must have collected
RECURSIVE ExpectedUsers(_)
ExpectedUsers(n) ==
    IF n = 0 THEN <<>>
    ELSE ExpectedUsers(n - 1) \o
         (CASE u_outcomes[n][1] = "ok" ->
                   <<[steamid |-> VStr(PyStr(steamid_list[n])), nickname |-> VStr("TestUser")]>>
            [] u_outcomes[n][1] = "error" -> <<[steamid |-> steamid_list[n]]>>
            [] OTHER -> <<>>)

\* C20: get_user_data never raises for a failing user source: for each
\* steamid in input order a Success adds the source's data, a Failure adds
\* the placeholder {steamid: id}, and an exception adds nothing and the loop
\* goes on; the result holds at most one entry per steamid, in input order,
\* and is empty for an empty input.
C20_UserDataAbsorbsFailures ==
    /\ u_pc # "idle" =>
         /\ steamid_list = IF Tag(u_args.steamids) \in {"str", "int"}
                           THEN <<u_args.steamids>> ELSE u_args.steamids[2]
         /\ Len(u_outcomes) = (IF u_pc = "loop" THEN u_idx - 1 ELSE Len(steamid_list))
         /\ results = ExpectedUsers(Len(u_outcomes))
         /\ Len(results) <= Len(u_outcomes)
    /\ u_pc = "raised" =>
         /\ u_raised.type = "DependencyNotInstalledError"
         /\ u_args.return_as = "dataframe" /\ ~u_args.pandas
    /\ u_pc = "returned" =>
         /\ u_raised = NoExc
         /\ u_retval = <<u_args.return_as, ExpectedUsers(Len(steamid_list))>>
         /\ steamid_list = <<>> => u_retval[2] = <<>>
    /\ (u_pc \notin {"idle", "loop"} /\ (u_args.return_as = "list" \/ u_args.pandas)) =>
         u_pc = "returned"

\* a list of two returned as a list: the fetch raised for the first steamid,
\* which left no entry, and failed for the second, which left the placeholder
C20_Witness ==
    /\ u_pc = "returned" /\ u_args.return_as = "list"
    /\ Len(steamid_list) = 2
    /\ u_outcomes[1] = <<"raises">>
    /\ u_outcomes[2][1] = "error"
    /\ u_retval = <<"list", <<[steamid |-> steamid_list[2]]>>>>

(***************************************************************************)
(* Properties of the recap                                                 *)
(***************************************************************************)
\* a float that is not finite
NonFinite(v) == v \in {VNaN, VInf}

\* C21: for every raw mapping that contains the id, get_recap() of the built
\* record has exactly the fields of _RECAP_FIELDS, none of them excluded or
\* outside the declaration, and no NaN or infinity: a NaN or an infinity
\* given for a float field is stored as null.
C21_RecapIsDeclaredAndFinite ==
    /\ recap_call.pc \in {"built", "recap"} =>
         /\ "steam_appid" \in DOMAIN recap_call.raw
         /\ \A f \in FloatFields \cap DOMAIN recap_call.raw :
              NonFinite(recap_call.raw[f]) => recap_call.model[f] = VNone
         /\ \A f \in ModelFields : ~NonFinite(recap_call.model[f])
    /\ recap_call.pc = "recap" =>
         /\ DOMAIN recap_call.recap = _RECAP_FIELDS
         /\ DOMAIN recap_call.recap \cap ExcludedFields = {}
         /\ \A f \in DOMAIN recap_call.recap :
              /\ ~NonFinite(recap_call.recap[f])
              /\ recap_call.recap[f] = JsonValue(recap_call.model[f])
         /\ \A f \in FloatFields \cap DOMAIN recap_call.raw \cap _RECAP_FIELDS :
              NonFinite(recap_call.raw[f]) => recap_call.recap[f] = VNone

\* a recap of a mapping that gave NaN for price_final and an infinity for the
\* excluded average_playtime_h
C21_Witness ==
    /\ recap_call.pc = "recap"
    /\ DOMAIN recap_call.raw = {"steam_appid", "average_playtime_h", "price_final"}
    /\ recap_call.raw["average_playtime_h"] = VInf
    /\ recap_call.raw["price_final"] = VNaN
    /\ recap_call.recap["price_final"] = VNone
    /\ recap_call.recap["average_playtime"] = VNone

\* the fields preprocess_data computes from other fields
ComputedFields == {"days_since_release", "average_playtime"}

\* C22: merging is field-scoped and never rolled back.  A source call that
\* returns a Success with its declared fields changes the accumulator on
\* those fields only, to the values of the result, and copies no field the
\* binding does not declare; a call that fails or raises leaves the
\* accumulator as it was; and the record is built from the accumulator as
\* the last call left it, so the values merged before a failure are in it.
C22_MergeIsFieldScoped ==
    [][/\ (pc \in {"id_sources", "name_sources"} /\ Len(calls') = Len(calls) + 1) =>
            LET c == calls'[Len(calls')]
                declared == FieldsOf(c.source)
                data == ResultOf(c.source, c.identifier, <<c.outcome>>).data
            IN  IF c.outcome \in {"error", "raises"} \/ ~(declared \subseteq DOMAIN data)
                THEN raw_data' = raw_data
                ELSE /\ DOMAIN raw_data' = DOMAIN raw_data \cup declared
                     /\ \A f \in declared : raw_data'[f] = data[f]
                     /\ \A f \in DOMAIN raw_data \ declared : raw_data'[f] = raw_data[f]
       /\ (pc = "build" /\ Len(result') = Len(result) + 1) =>
            LET record == result'[Len(result')]
            IN  \A f \in (DOMAIN raw_data \cap DOMAIN record) \ ComputedFields :
                    record[f] = JsonValue(Validate(f, raw_data[f]))
      ]_vars

\* a batch returned a record that holds the store's name although a later
\* source of the same identifier failed
C22_Witness ==
    /\ pc = "returned" /\ Len(result) = 1 /\ Len(appid_list) = 1
    /\ result[1]["name"] = VStr("Mock Game")
    /\ \E n \in 2..Len(calls) : calls[n].outcome = "error"
    /\ calls[1].source = "SteamStore" /\ calls[1].outcome = "ok"

\* C28 as stated: every record returned for an identifier keeps the seeded
\* id: its steam_appid is the requested identifier as a string, and so the
\* identifier of its FetchResult, whatever data the sources return.
C28_RecordKeepsSeededId ==
    \A k \in 1..Len(all_results) :
        all_results[k].success =>
            /\ all_results[k].data[2]["steam_appid"] = VStr(all_results[k].identifier)
            /\ k <= Len(appid_list) =>
                 all_results[k].data[2]["steam_appid"] = VStr(PyStr(appid_list[k]))

\* how many calls before the n-th served the same list position
EarlierAt(n) == Cardinality({m \in 1..(n - 1) : calls[m].pos = calls[n].pos})

\* C23: source calls are sequential and ordered.  The call log never goes
\* back to an earlier list position; the calls of one position are, in order,
\* the id-keyed bindings in declaration order, the primary one first, and
\* then the name-keyed bindings, which only start after every id-keyed
\* binding was called; no binding is called twice for one position.
C23_CallsAreOrdered ==
    /\ _id_based_sources[1].is_primary
    /\ \A k \in 2..Len(_id_based_sources) : ~_id_based_sources[k].is_primary
    /\ \A n \in 1..Len(calls) :
         /\ calls[n].pos \in 1..Len(appid_list)
         /\ calls[n].pos <= idx
         /\ \A m \in 1..(n - 1) : calls[m].pos <= calls[n].pos
         /\ LET j == EarlierAt(n) + 1
            IN  IF calls[n].scope = "id"
                THEN /\ j <= Len(_id_based_sources)
                     /\ calls[n].source = _id_based_sources[j].source
                     /\ calls[n].identifier = PyStr(appid_list[calls[n].pos])
                ELSE /\ calls[n].scope = "name"
                     /\ j > Len(_id_based_sources)
                     /\ j - Len(_id_based_sources) <= Len(_name_based_sources)
                     /\ calls[n].source =
                            _name_based_sources[j - Len(_id_based_sources)].source
         /\ \A m \in 1..(n - 1) :
              calls[m].pos = calls[n].pos =>
                  <<calls[m].source, calls[m].scope>> # <<calls[n].source, calls[n].scope>>

\* a batch of two identifiers whose first identifier got its name-keyed call
\* before the primary source was called for the second
C23_Witness ==
    /\ pc = "returned" /\ Len(appid_list) = 2
    /\ \E n \in 2..Len(calls) :
         /\ calls[n - 1].pos = 1 /\ calls[n - 1].scope = "name"
         /\ calls[n].pos = 2 /\ calls[n].scope = "id" /\ calls[n].source = "SteamStore"

\* C27 as stated: each output field is declared by at most one binding, the
\* id-keyed and the name-keyed ones taken together: no two sources called in
\* one fetch declare a common field, so a value merged from a successful
\* source is never overwritten by another source's, and a record holds, for
\* every field of a source that succeeded, the value that source reported.
C27_FieldsDeclaredOnce ==
    /\ \A n \in 1..Len(calls) : \A m \in 1..(n - 1) :
         calls[m].pos = calls[n].pos =>
             FieldsOf(calls[m].source) \cap FieldsOf(calls[n].source) = {}
    /\ \A k \in 1..Len(all_results) :
         all_results[k].success =>
             \A c \in CallsAt(k) :
                 c.outcome = "ok" =>
                     \A f \in FieldsOf(c.source) \cap DOMAIN all_results[k].data[2] :
                         all_results[k].data[2][f] = ReportedBy(c, f)

\* the exception a source call of the log ended in that is not a
\* GameInsightsError: the one the source raised, or the KeyError of the first
\* declared field its Success lacks; NoExc for any other call
UnexpectedError(c) ==
    IF c.outcome = "raises" THEN SourceCrash
    ELSE IF c.outcome = "error" THEN NoExc
    ELSE LET config == IF c.scope = "id" THEN _id_based_sources[SourceNumber(c.source)]
                       ELSE _name_based_sources[1]
             data == ResultOf(c.source, c.identifier, <<c.outcome>>).data
             missing == {k \in 1..Len(config.fields) : config.fields[k] \notin DOMAIN data}
         IN  IF missing = {} THEN NoExc
             ELSE KeyError(config.fields[CHOOSE k \in missing : \A m \in missing : k <= m])

\* C29: an exception that is not a GameInsightsError, raised while one
\* identifier is fetched (by a source call, or by a Success that lacks a
\* declared field), is caught in both modes: the fetch of that identifier
\* stops there, a failed FetchResult with the exception's message is
\* appended, no record is added, and the batch goes on and returns.
C29_UnexpectedErrorsAreAbsorbed ==
    /\ \A n \in 1..Len(calls) :
         UnexpectedError(calls[n]) # NoExc =>
             LET k == calls[n].pos
             IN  /\ ~(pc = "raised" /\ idx = k)
                 /\ idx > k
                 /\ \A m \in (n + 1)..Len(calls) : calls[m].pos > k
                 /\ k <= Len(all_results)
                 /\ all_results[k] = FetchResult(PyStr(appid_list[k]), FALSE, VNone,
                                                 VStr(UnexpectedError(calls[n]).message))
    /\ Len(result) = Cardinality({k \in 1..Len(all_results) : all_results[k].success})
    /\ pc = "returned" =>
         /\ raised = NoExc
         /\ Len(all_results) = Len(appid_list)

\* a batch in propagate mode returned although a source raised for its first
\* identifier; the second identifier gave a record
C29_Witness ==
    /\ pc = "returned" /\ raise_on_error /\ include_failures
    /\ Len(appid_list) = 2
    /\ \E c \in CallsAt(1) : c.outcome = "raises"
    /\ ~all_results[1].success /\ all_results[1].error = VStr("source crashed")
    /\ all_results[2].success /\ Len(result) = 1

(***************************************************************************)
(* Properties of BaseSource._make_request                                  *)
(***************************************************************************)
\* the session raised a ConnectionError or a Timeout (or a subclass)
Retryable(outcome) ==
    /\ outcome[1] = "raises"
    /\ RequestExceptions[outcome[2]] \cap {"ConnectionError", "Timeout"} # {}

\* what holds of a _make_request call at every point
RequestStaysInBounds ==
    /\ request.pc # "raised"
    /\ request.pc = "loop" =>
         /\ request.attempts = Len(request.tried) + 1
         /\ request.attempts <= (IF request.retries >= 1 THEN request.retries ELSE 1)
         /\ \A k \in 1..Len(request.tried) : Retryable(request.tried[k])
    /\ request.pc = "returned" =>
         /\ DOMAIN request.returned = {"status_code", "content", "reason"}
         /\ \A k \in 1..Len(request.tried) :
              request.tried[k][1] = "response" =>
                  /\ k = Len(request.tried)
                  /\ request.returned.status_code = request.tried[k][2]
         /\ (request.retries >= 1 /\ \A k \in 1..Len(request.tried) : Retryable(request.tried[k])) =>
              /\ Len(request.tried) = request.retries
              /\ request.sleeps =
                     [k \in 1..(request.retries - 1) |-> request.backoff_factor * (2 ^ (k - 1))]
              /\ request.returned.status_code = SYNTHETIC_ERROR_CODE

\* C25: _make_request always terminates with a Response and raises no
\* requests exception.  A response of any attempt is returned at once; when
\* every attempt fails with a ConnectionError or a Timeout and retries = N
\* (N >= 1), exactly N attempts are made, a sleep of backoff_factor * 2^(k-1)
\* follows the k-th failed attempt for k < N only, and the synthetic 599
\* response is returned after the N-th.
C25_RequestEndsInResponse ==
    []RequestStaysInBounds /\ <>(request.pc = "returned")

\* the default three attempts timed out: two sleeps, of 0.5 s and 1 s, and
\* the synthetic response
C25_Witness ==
    /\ request.pc = "returned" /\ request.retries = 3 /\ request.backoff_factor = 5
    /\ request.tried = <<<<"raises", "Timeout">>, <<"raises", "Timeout">>, <<"raises", "Timeout">>>>
    /\ request.sleeps = <<5, 10>>
    /\ request.returned.status_code = 599

\* C26 as stated: a fatal transport error aborts the request at once: when
\* the session raises InvalidURL, SSLError or TooManyRedirects, no further
\* attempt is made, no backoff sleep follows, and the synthetic 599 response
\* is returned after that attempt.
C26_FatalErrorsAbortAtOnce ==
    \A k \in 1..Len(request.tried) :
        (request.tried[k][1] = "raises" /\ request.tried[k][2] \in exception_to_abort) =>
            /\ k = Len(request.tried)
            /\ Len(request.sleeps) = k - 1
            /\ request.pc = "returned"
            /\ request.returned.status_code = SYNTHETIC_ERROR_CODE

(***************************************************************************)
(* HowLongToBeat.fetch                                                     *)
(***************************************************************************)
\* C30: HowLongToBeat.fetch never raises, whatever the token, the search and
\* the game page yield; what it returns is a success with data and no error,
\* or a failure with an error text and no data; the search is requested only
\* after a token was obtained, the game page only after a first result with
\* a game_id.
C30_FetchNeverRaises ==
    /\ hltb.pc # "raised"
    /\ hltb.pc = "returned" =>
         \/ hltb.result.success /\ hltb.result.error = ""
         \/ ~hltb.result.success /\ hltb.result.error # "" /\ hltb.result.data = EmptyDict
    /\ "search" \in Range(hltb.requests) => Truthy(hltb.token)
    /\ "page" \in Range(hltb.requests) => Truthy(DictGet(hltb.first_result, "game_id"))

====
